---- MODULE Spec2Model ----
(***************************************************************************)
(* A model of pathfinder's tile-svg utility (utils/tile-svg/src/main.rs):  *)
(* the SortedVector container, the per-object tilers' culling into the     *)
(* shared ZBuffer, and the SceneBuilder that turns the built objects into  *)
(* solid tiles and batches.                                                *)
(***************************************************************************)
EXTENDS Integers, Sequences, FiniteSets, TLC

VARIABLES
    \* SortedVector under test (test_sorted_vec)
    sv_values,      \* the list handed to the property
    sv_array,       \* SortedVector.array
    sv_pushed,      \* how many of sv_values have been pushed
    sv_results      \* the values popped so far, in pop order

VARIABLES
    \* the scene handed to main (Scene.objects, in paint order)
    position,       \* position[k]: index in Scene.objects of the k-th modelled object
    runs,           \* runs[k]: outline bounds and sweep trace of that object
    \* Scene::build_objects: one worker (closure invocation) per object
    objects,        \* objects[k]: the worker's Tiler.built_object
    w_pc,           \* w_pc[k]: "start", "load", "cas" or "done"
    w_tile,         \* w_tile[k]: index in tiles of the solid tile being culled
    w_old,          \* w_old[k]: old_depth of the ZBuffer::update in progress
    completed,      \* the workers that returned, in completion order
    zbuf,           \* ZBuffer.buffer
    \* main and its SceneBuilder
    m_pc,           \* "build_objects", "build_solid_tiles", "build_batch", "done"
    built_objects,  \* the vector build_objects returned (SceneBuilder.objects)
    current_object_index,   \* SceneBuilder.current_object_index
    solid_tiles,    \* BuiltScene.solid_tiles
    batches         \* BuiltScene.batches

VARIABLES
    \* the path of one SVG node on its way to an Outline (Scene::from_tree)
    adapter,        \* "usvg" (UsvgPathToSegments) or "events" (PathEventsToSegments)
    events,         \* the stream the adapter's iter yields
    consumed,       \* how many events the adapter has taken from it
    first_subpath_point,    \* the adapter's first_subpath_point
    last_subpath_point,     \* the adapter's last_subpath_point
    just_moved,     \* the adapter's just_moved
    segments,       \* history: the segments the adapter returned, in order
    mono_buffer,    \* MonotonicConversionIter.buffer
    emitted,        \* history: the segments MonotonicConversionIter returned
    outline,        \* the Outline of from_segments: contours and bounds
    current_contour,    \* from_segments' current_contour
    bounding_points,    \* from_segments' bounding_points, <<>> for None
    p_pc            \* "" (no path), "segments" (in the for loop) or "done"

VARIABLES
    \* Transform2DF32 under test
    xf_a, xf_b,     \* two transforms
    xf_point,       \* a point
    xf_results      \* <<>>, or the transforms and points computed from them

VARIABLES
    \* the tilers of Scene::build_objects taken strip by strip
    view_box,       \* Scene.view_box
    outlines,       \* outlines[k]: the Outline of the k-th object
    tilers          \* tilers[k]: the worker's Tiler while it generates strips

sv_vars == <<sv_values, sv_array, sv_pushed, sv_results>>

path_vars == <<adapter, events, consumed, first_subpath_point, last_subpath_point,
               just_moved, segments, mono_buffer, emitted, outline, current_contour,
               bounding_points, p_pc>>

transform_vars == <<xf_a, xf_b, xf_point, xf_results>>

tiler_vars == <<view_box, outlines, tilers>>

\* no path is being converted
PathIdle ==
    /\ adapter = "" /\ events = <<>> /\ consumed = 0
    /\ first_subpath_point = <<>> /\ last_subpath_point = <<>> /\ just_moved = FALSE
    /\ segments = <<>> /\ mono_buffer = <<>> /\ emitted = <<>>
    /\ outline = <<>> /\ current_contour = <<>> /\ bounding_points = <<>>
    /\ p_pc = ""

\* no transform is under test
TransformIdle ==
    xf_a = <<>> /\ xf_b = <<>> /\ xf_point = <<>> /\ xf_results = <<>>

\* no scene
TilerIdle ==
    /\ view_box = [x |-> 0, y |-> 0, w |-> 0, h |-> 0]
    /\ outlines = <<>>
    /\ tilers = <<>>

scene_vars == <<position, runs, objects, w_pc, w_tile, w_old, completed, zbuf, m_pc,
                built_objects, current_object_index, solid_tiles, batches>>

vars == <<sv_values, sv_array, sv_pushed, sv_results,
          position, runs, objects, w_pc, w_tile, w_old, completed, zbuf, m_pc,
          built_objects, current_object_index, solid_tiles, batches,
          adapter, events, consumed, first_subpath_point, last_subpath_point,
          just_moved, segments, mono_buffer, emitted, outline, current_contour,
          bounding_points, p_pc,
          xf_a, xf_b, xf_point, xf_results,
          view_box, outlines, tilers>>

----------------------------------------------------------------------------
(* Bounds of the model *)

\* longest list pushed into the SortedVector under test
MaxLen == 4

\* the integers the pushed lists are drawn from (i32 in the test)
SvValueSet == {-2, 0, 1, 3}

----------------------------------------------------------------------------
(* Generic helpers *)

Range(s) == {s[i] : i \in DOMAIN s}

Reverse(s) == [i \in 1..Len(s) |-> s[Len(s) + 1 - i]]

SeqsUpTo(S, n) == UNION {[1..k -> S] : k \in 0..n}

Swap(s, i, j) == [s EXCEPT ![i] = s[j], ![j] = s[i]]

----------------------------------------------------------------------------
(* SortedVector, instantiated at integers (T = i32, PartialOrd is <=) *)

\* the loop of SortedVector::push; `index` is the Rust index (0-based), the
\* TLA+ sequence holds Rust's array[k] at position k + 1
RECURSIVE SortedVector_push_loop(_, _)
SortedVector_push_loop(array, index) ==
    IF index > 0
    THEN LET i == index - 1
         IN IF array[i + 1] <= array[i + 2]
            THEN array
            ELSE SortedVector_push_loop(Swap(array, i + 1, i + 2), i)
    ELSE array

\* a push that gives up after the first swap
SortedVector_push_one_swap(array, value) ==
    LET a == Append(array, value)
        n == Len(a)
    IN IF n > 1 /\ ~(a[n - 1] <= a[n]) THEN Swap(a, n - 1, n) ELSE a

SortedVector_push(array, value) ==
    SortedVector_push_loop(Append(array, value), Len(array))

SortedVector_peek(array) == array[Len(array)]

SortedVector_pop(array) == SubSeq(array, 1, Len(array) - 1)

SortedVector_is_empty(array) == Len(array) = 0

----------------------------------------------------------------------------
(* test_sorted_vec: push every value, then pop until empty *)

SvInit ==
    /\ sv_values \in SeqsUpTo(SvValueSet, MaxLen)
    /\ sv_array = <<>>
    /\ sv_pushed = 0
    /\ sv_results = <<>>
    /\ position = <<>> /\ runs = <<>> /\ objects = <<>>
    /\ w_pc = <<>> /\ w_tile = <<>> /\ w_old = <<>> /\ completed = <<>>
    /\ zbuf = <<>> /\ m_pc = "" /\ built_objects = <<>>
    /\ current_object_index = 0 /\ solid_tiles = <<>> /\ batches = <<>>
    /\ PathIdle /\ TransformIdle /\ TilerIdle

SvPush ==
    /\ sv_pushed < Len(sv_values)
    /\ sv_array' = SortedVector_push(sv_array, sv_values[sv_pushed + 1])
    /\ sv_pushed' = sv_pushed + 1
    /\ UNCHANGED <<sv_values, sv_results, scene_vars, path_vars, transform_vars, tiler_vars>>

SvPop ==
    /\ sv_pushed = Len(sv_values)
    /\ ~SortedVector_is_empty(sv_array)
    /\ sv_results' = Append(sv_results, SortedVector_peek(sv_array))
    /\ sv_array' = SortedVector_pop(sv_array)
    /\ UNCHANGED <<sv_values, sv_pushed, scene_vars, path_vars, transform_vars, tiler_vars>>

SvNext == SvPush \/ SvPop

SpecSortedVector == SvInit /\ [][SvNext]_vars

SvDone == sv_pushed = Len(sv_values) /\ SortedVector_is_empty(sv_array)

----------------------------------------------------------------------------
(* Machine integers *)

\* `v as u16`: the value modulo 2^16; u16 arithmetic wraps in the release
\* build the tool is run in (the debug build panics instead)
U16(v) == v % (2^16)

\* `v as u32` and wrapping u32 arithmetic: the value modulo 2^32.  The model
\* checking tool's integers end at 2^31 - 1, and every u32 of the model is used as a
\* vector index: a negative v, which wraps to 2^32 + v, is held as 2^31 - 1,
\* like it past the end of every vector.
U32(v) == IF v >= 0 THEN v ELSE 2^30 + (2^30 - 1)

\* std::u16::MAX
U16_MAX == 2^16 - 1

\* i32 division truncates toward zero
I32_div(a, b) == IF a >= 0 THEN a \div b ELSE -((-a) \div b)

----------------------------------------------------------------------------
(* Tile geometry.  A rect is [x, y, w, h] (origin and size); pixel rects     *)
(* have integral coordinates here, so f32::floor and f32::ceil are the       *)
(* identity on them.                                                          *)

TILE_WIDTH == 16

TILE_HEIGHT == 16

Rect_zero == [x |-> 0, y |-> 0, w |-> 0, h |-> 0]

Rect_max_x(r) == r.x + r.w

Rect_max_y(r) == r.y + r.h

Max2(a, b) == IF a >= b THEN a ELSE b

Min2(a, b) == IF a <= b THEN a ELSE b

\* euclid's Rect::intersection(..).unwrap_or(Rect::zero()) as Tiler::new uses it
Rect_intersection_or_zero(a, b) ==
    LET x0 == Max2(a.x, b.x)
        y0 == Max2(a.y, b.y)
        x1 == Min2(Rect_max_x(a), Rect_max_x(b))
        y1 == Min2(Rect_max_y(a), Rect_max_y(b))
    IN IF x0 < x1 /\ y0 < y1
       THEN [x |-> x0, y |-> y0, w |-> x1 - x0, h |-> y1 - y0]
       ELSE Rect_zero

\* pathfinder_geometry::util::alignup_i32: the ceiling of a / b
alignup_i32(a, b) == -((-a) \div b)

round_rect_out_to_tile_bounds(rect) ==
    LET origin_x == I32_div(rect.x, TILE_WIDTH)
        origin_y == I32_div(rect.y, TILE_HEIGHT)
        extent_x == alignup_i32(Rect_max_x(rect), TILE_WIDTH)
        extent_y == alignup_i32(Rect_max_y(rect), TILE_HEIGHT)
    IN [x |-> origin_x, y |-> origin_y,
        w |-> extent_x - origin_x, h |-> extent_y - origin_y]

\* scene_tile_index and BuiltObject::tile_coords_to_index: the same u32
\* arithmetic over the scene's and the object's tile rect
scene_tile_index(tile_x, tile_y, tile_rect) ==
    U32((tile_y - tile_rect.y) * tile_rect.w + (tile_x - tile_rect.x))

----------------------------------------------------------------------------
(* BuiltObject.  tiles, fills and solid_tiles are sequences: Rust's element  *)
(* i is element i + 1 here.  A fill's px stands for its (px, subpx) pair.    *)

TileObjectPrimitive_new(tile_x, tile_y) ==
    [tile_x |-> tile_x, tile_y |-> tile_y, backdrop |-> 0]

BuiltObject_new(bounds, shader) ==
    LET tile_rect == round_rect_out_to_tile_bounds(bounds)
        tile_count == tile_rect.w * tile_rect.h
    IN [bounds |-> bounds,
        tile_rect |-> tile_rect,
        tiles |-> [i \in 1..tile_count |->
                     TileObjectPrimitive_new(tile_rect.x + ((i - 1) % tile_rect.w),
                                             tile_rect.y + ((i - 1) \div tile_rect.w))],
        fills |-> <<>>,
        solid_tiles |-> [i \in 1..tile_count |-> TRUE],
        shader |-> shader]

tile_coords_to_index(object, tile_x, tile_y) ==
    scene_tile_index(tile_x, tile_y, object.tile_rect)

\* an add_fill that leaves solid_tiles alone
add_fill_keeps_solid(object, px, tile_x, tile_y) ==
    [object EXCEPT
       !.fills = Append(@, [px |-> px, tile_x |-> tile_x, tile_y |-> tile_y])]

\* add_fill after the quantisation of the segment to (px, subpx)
add_fill(object, px, tile_x, tile_y) ==
    LET tile_index == tile_coords_to_index(object, tile_x, tile_y)
    IN [object EXCEPT
          !.fills = Append(@, [px |-> px, tile_x |-> tile_x, tile_y |-> tile_y]),
          !.solid_tiles = [@ EXCEPT ![tile_index + 1] = FALSE]]

\* get_tile_mut(tile_x, tile_y).backdrop = winding
set_backdrop(object, winding, tile_x, tile_y) ==
    LET tile_index == tile_coords_to_index(object, tile_x, tile_y)
    IN [object EXCEPT !.tiles[tile_index + 1].backdrop = winding]

----------------------------------------------------------------------------
(* The scene.  The sweep of one object (generate_strip for every strip) is   *)
(* taken by what it does to the BuiltObject: a trace of add_fill calls and   *)
(* backdrop assignments.                                                      *)

\* the view box of the scene, in pixels: scene tiles (1,1)..(2,2)
ViewBox == [x |-> 16, y |-> 16, w |-> 32, h |-> 32]

SceneTileRect == round_rect_out_to_tile_bounds(view_box)

\* number of objects of the scene that are modelled in full
NumObjects == 2

\* the modelled objects, numbered in paint order
Slots == DOMAIN position

\* positions in Scene.objects the modelled objects may have; every other
\* position below the last modelled one holds an object outside the view box
\* (Tiler::new gives it Rect::zero(): no tiles, no fills, nothing to cull)
IndexSet == {0, 1, 2^16 - 1, 2^16}

IndexChoices ==
    {f \in [1..NumObjects -> IndexSet] : \A j, k \in 1..NumObjects : j < k => f[j] < f[k]}

TileKinds == {"empty", "opaque", "mask"}

\* the outline's bounds: over the bottom row of the scene, over its right
\* column, over the right column and 2 pixels beyond the view box, off screen
OutlineBottomRow == [x |-> 16, y |-> 32, w |-> 32, h |-> 16]

OutlineRightColumn == [x |-> 32, y |-> 16, w |-> 16, h |-> 32]

OutlineRightColumnBeyond == [x |-> 32, y |-> 16, w |-> 18, h |-> 32]

OutlineOffScreen == [x |-> 64, y |-> 64, w |-> 16, h |-> 16]

\* the trace of the sweep over tile i (0-based) of the object's tile rect
TileTrace(rect, i, kind) ==
    LET tile_x == rect.x + (i % rect.w)
        tile_y == rect.y + (i \div rect.w)
    IN CASE kind = "empty" -> <<>>
         [] kind = "opaque" ->
              <<[op |-> "backdrop", winding |-> 1, tile_x |-> tile_x, tile_y |-> tile_y]>>
         [] kind = "mask" ->
              <<[op |-> "fill", px |-> 10 + i, tile_x |-> tile_x, tile_y |-> tile_y]>>

RECURSIVE TraceOf(_, _, _)
TraceOf(rect, kinds, i) ==
    IF i >= Len(kinds) THEN <<>>
    ELSE TileTrace(rect, i, kinds[i + 1]) \o TraceOf(rect, kinds, i + 1)

\* the two lines of the first strip by which the outline leaves the view box
\* on the right and comes back: the fill of the last tile column of each
\* (generate_fill_primitives_for_line takes the columns from the line's x
\* extent alone) has tile_x = tile_rect.max_x()
StrayTrace(rect) ==
    <<[op |-> "fill", px |-> 9, tile_x |-> Rect_max_x(rect), tile_y |-> rect.y],
      [op |-> "fill", px |-> 8, tile_x |-> Rect_max_x(rect), tile_y |-> rect.y]>>

Run(bounds, kinds, stray) ==
    LET rect == round_rect_out_to_tile_bounds(Rect_intersection_or_zero(bounds, ViewBox))
    IN [bounds |-> bounds,
        trace |-> TraceOf(rect, kinds, 0) \o (IF stray THEN StrayTrace(rect) ELSE <<>>)]

\* the objects a scene is made of: each tile of the object empty, opaque or
\* with a fill; the outline that reaches beyond the view box has a fill in
\* its first tile and the stray fills; an object nothing of which is in view
\* is the off-screen one
TilerRuns ==
    UNION {
      {Run(OutlineBottomRow, k, FALSE) :
          k \in {<<"opaque", "opaque">>, <<"opaque", "mask">>, <<"mask", "mask">>}},
      {Run(OutlineRightColumn, k, FALSE) :
          k \in {<<"opaque", "opaque">>, <<"empty", "opaque">>, <<"opaque", "mask">>}},
      {Run(OutlineRightColumnBeyond, k, TRUE) :
          k \in {<<"mask", "opaque">>, <<"mask", "mask">>}},
      {Run(OutlineOffScreen, <<>>, FALSE)} }

\* the paint of the k-th modelled object, the ShaderId of its BuiltObject.
\* Scene::push_paint numbers the paints by first use, so the object at
\* position i has a paint of at most i; the modelled objects have the
\* distinct paints 0, 1, ...
PaintOf(k) == k - 1

----------------------------------------------------------------------------
(* The per-object worker of Scene::build_objects: Tiler::new, generate_tiles *)

\* the strips of generate_tiles, by their trace
RECURSIVE generate_strips(_, _)
generate_strips(object, trace) ==
    IF trace = <<>> THEN object
    ELSE LET e == Head(trace)
         IN generate_strips(
              IF e.op = "fill" THEN add_fill(object, e.px, e.tile_x, e.tile_y)
              ELSE set_backdrop(object, e.winding, e.tile_x, e.tile_y),
              Tail(trace))

\* Tiler::new: the BuiltObject over the outline's bounds clipped to the view box
Tiler_new(k) ==
    BuiltObject_new(Rect_intersection_or_zero(runs[k].bounds, view_box), PaintOf(k))

\* `object_index as u16` of the closure, the Tiler's object_index
Tiler_object_index(k) == U16(position[k])

\* new_depth of ZBuffer::update: (object_index + 1) as usize, the sum in u16
new_depth(object_index) == U16(object_index + 1)

\* Tiler::cull visits solid_tiles.ones() in rising order and updates the
\* Z-buffer for those with a backdrop: the first such tile at or after `from`
\* (0-based), or Len(tiles) if there is none
cull_next(object, from) ==
    LET hits == {i \in from..(Len(object.tiles) - 1) :
                    object.solid_tiles[i + 1] /\ object.tiles[i + 1].backdrop # 0}
    IN IF hits = {} THEN Len(object.tiles)
       ELSE CHOOSE i \in hits : \A j \in hits : i <= j

\* the Z-buffer cell ZBuffer::update addresses for tile i of the object
update_cell(object, i) ==
    scene_tile_index(object.tiles[i + 1].tile_x, object.tiles[i + 1].tile_y, SceneTileRect)

ZBuffer_new ==
    [i \in 0..(SceneTileRect.w * SceneTileRect.h - 1) |-> 0]

\* the worker moves on to the next solid tile to cull, or returns
Advance(k, from) ==
    LET next == cull_next(objects'[k], from)
    IN IF next < Len(objects'[k].tiles)
       THEN /\ w_pc' = [w_pc EXCEPT ![k] = "load"]
            /\ w_tile' = [w_tile EXCEPT ![k] = next]
            /\ completed' = completed
       ELSE /\ w_pc' = [w_pc EXCEPT ![k] = "done"]
            /\ w_tile' = [w_tile EXCEPT ![k] = 0]
            /\ completed' = Append(completed, k)

\* generate_tiles up to the first Z-buffer access of cull
GenerateTiles(k) ==
    /\ m_pc = "build_objects"
    /\ w_pc[k] = "start"
    /\ objects' = [objects EXCEPT ![k] = generate_strips(Tiler_new(k), runs[k].trace)]
    /\ Advance(k, 0)
    /\ UNCHANGED <<position, runs, w_old, zbuf, m_pc, built_objects,
                   current_object_index, solid_tiles, batches, sv_vars,
                   path_vars, transform_vars, tiler_vars>>

\* a loop that runs whenever the cell differs from the new depth
update_loop_test_differs(old_depth, depth) == old_depth # depth

\* `while old_depth < new_depth` of ZBuffer::update
update_loop_test(old_depth, depth) == old_depth < depth

\* a plain store: the swap is made whatever the cell holds
compare_and_swap_blind(current, old_depth) == TRUE

\* compare_and_swap(old_depth, new_depth) stores iff the cell holds old_depth
compare_and_swap_stores(current, old_depth) == current = old_depth

\* ZBuffer::update run alone (no other writer between its load and its swap)
ZBuffer_update(buffer, cell, object_index) ==
    IF update_loop_test(buffer[cell], new_depth(object_index))
    THEN [buffer EXCEPT ![cell] = new_depth(object_index)]
    ELSE buffer

\* ZBuffer::update: the load of old_depth and the first test of the loop
UpdateLoad(k) ==
    /\ w_pc[k] = "load"
    /\ LET cell == update_cell(objects[k], w_tile[k])
           old_depth == zbuf[cell]
           depth == new_depth(Tiler_object_index(k))
       IN /\ w_old' = [w_old EXCEPT ![k] = IF update_loop_test(old_depth, depth)
                                           THEN old_depth ELSE 0]
          /\ objects' = objects
          /\ IF update_loop_test(old_depth, depth)
             THEN /\ w_pc' = [w_pc EXCEPT ![k] = "cas"]
                  /\ UNCHANGED <<w_tile, completed>>
             ELSE Advance(k, w_tile[k] + 1)
    /\ UNCHANGED <<position, runs, zbuf, m_pc, built_objects,
                   current_object_index, solid_tiles, batches, sv_vars,
                   path_vars, transform_vars, tiler_vars>>

\* ZBuffer::update: one compare_and_swap and the test of the loop after it
UpdateCas(k) ==
    /\ w_pc[k] = "cas"
    /\ LET cell == update_cell(objects[k], w_tile[k])
           prev_depth == zbuf[cell]
           depth == new_depth(Tiler_object_index(k))
       IN /\ objects' = objects
          /\ IF compare_and_swap_stores(prev_depth, w_old[k])
             THEN \* successfully written
                  /\ zbuf' = [zbuf EXCEPT ![cell] = depth]
                  /\ w_old' = [w_old EXCEPT ![k] = 0]
                  /\ Advance(k, w_tile[k] + 1)
             ELSE /\ zbuf' = zbuf
                  /\ IF update_loop_test(prev_depth, depth)
                     THEN /\ w_old' = [w_old EXCEPT ![k] = prev_depth]
                          /\ UNCHANGED <<w_pc, w_tile, completed>>
                     ELSE /\ w_old' = [w_old EXCEPT ![k] = 0]
                          /\ Advance(k, w_tile[k] + 1)
    /\ UNCHANGED <<position, runs, m_pc, built_objects,
                   current_object_index, solid_tiles, batches, sv_vars,
                   path_vars, transform_vars, tiler_vars>>

----------------------------------------------------------------------------
(* main: build_objects' collect, then the SceneBuilder *)

\* batch capacities.  The program's values are 0x0002_0000 fills and 0xffff
\* mask tiles; the model keeps the code and scales the capacities down so
\* that scenes of a few tiles fill a batch of either.
MAX_FILLS_PER_BATCH == 3

MAX_MASKS_PER_BATCH == 2

\* Scene.objects.len(): the last modelled object is the last of the scene
objects_len == position[Len(position)] + 1

\* an object of the scene that is not modelled in full: off screen, paint 0
OffScreenObject ==
    BuiltObject_new(Rect_intersection_or_zero(OutlineOffScreen, view_box), 0)

IsModelled(i) == \E k \in Slots : position[k] = i

SlotAt(i) == CHOOSE k \in Slots : position[k] = i

\* objects[i] of a vector of built objects
ObjectAt(objs, i) == IF IsModelled(i) THEN objs[SlotAt(i)] ELSE OffScreenObject

\* the first position at or after i that holds a modelled object, else objects_len
NextModelled(i) ==
    LET later == {position[k] : k \in {kk \in Slots : position[kk] >= i}}
    IN IF later = {} THEN objects_len
       ELSE CHOOSE q \in later : \A r \in later : q <= r

\* a collect that keeps the order in which the workers returned
collect_in_completion_order(done, objs) == [i \in Slots |-> objs[done[i]]]

\* par_iter().enumerate().map(..).collect(): an indexed collect, the result
\* of the closure run on element i is element i of the vector
collect(done, objs) ==
    [i \in Slots |-> objs[done[CHOOSE j \in DOMAIN done : done[j] = i]]]

Join ==
    /\ m_pc = "build_objects"
    /\ \A k \in Slots : w_pc[k] = "done"
    /\ built_objects' = collect(completed, objects)
    /\ m_pc' = "build_solid_tiles"
    /\ UNCHANGED <<position, runs, objects, w_pc, w_tile, w_old, completed, zbuf,
                   current_object_index, solid_tiles, batches, sv_vars,
                   path_vars, transform_vars, tiler_vars>>

\* ZBuffer::test
ZBuffer_test(buffer, tile_index, object_index) ==
    buffer[tile_index] < object_index + 1

\* ZBuffer::build_solid_tiles, the two loops from cell (scene_tile_x, scene_tile_y) on
RECURSIVE build_solid_tiles_from(_, _, _, _, _)
build_solid_tiles_from(buffer, objs, tile_rect, scene_tile_y, scene_tile_x) ==
    IF scene_tile_y >= tile_rect.h THEN <<>>
    ELSE IF scene_tile_x >= tile_rect.w
    THEN build_solid_tiles_from(buffer, objs, tile_rect, scene_tile_y + 1, 0)
    ELSE LET tile_index == scene_tile_y * tile_rect.w + scene_tile_x
             depth == buffer[tile_index]
             rest == build_solid_tiles_from(buffer, objs, tile_rect,
                                            scene_tile_y, scene_tile_x + 1)
         IN IF depth = 0 THEN rest
            ELSE <<[tile_x |-> scene_tile_x + tile_rect.x,
                    tile_y |-> scene_tile_y + tile_rect.y,
                    shader |-> ObjectAt(objs, depth - 1).shader]>> \o rest

\* the loops swapped: column by column
RECURSIVE build_solid_tiles_by_column(_, _, _, _, _)
build_solid_tiles_by_column(buffer, objs, tile_rect, scene_tile_x, scene_tile_y) ==
    IF scene_tile_x >= tile_rect.w THEN <<>>
    ELSE IF scene_tile_y >= tile_rect.h
    THEN build_solid_tiles_by_column(buffer, objs, tile_rect, scene_tile_x + 1, 0)
    ELSE LET tile_index == scene_tile_y * tile_rect.w + scene_tile_x
             depth == buffer[tile_index]
             rest == build_solid_tiles_by_column(buffer, objs, tile_rect,
                                                 scene_tile_x, scene_tile_y + 1)
         IN IF depth = 0 THEN rest
            ELSE <<[tile_x |-> scene_tile_x + tile_rect.x,
                    tile_y |-> scene_tile_y + tile_rect.y,
                    shader |-> ObjectAt(objs, depth - 1).shader]>> \o rest

build_solid_tiles_column_major(buffer, objs, tile_rect) ==
    build_solid_tiles_by_column(buffer, objs, tile_rect, 0, 0)

build_solid_tiles(buffer, objs, tile_rect) ==
    build_solid_tiles_from(buffer, objs, tile_rect, 0, 0)

BuildSolidTiles ==
    /\ m_pc = "build_solid_tiles"
    /\ solid_tiles' = build_solid_tiles(zbuf, built_objects, SceneTileRect)
    /\ m_pc' = "build_batch"
    /\ UNCHANGED <<position, runs, objects, w_pc, w_tile, w_old, completed, zbuf,
                   built_objects, current_object_index, batches, sv_vars,
                   path_vars, transform_vars, tiler_vars>>

----------------------------------------------------------------------------
(* SceneBuilder::build_batch.  A batch is [fills, mask_tiles].  Two fields   *)
(* are history only, no part of the program's structs: a mask tile's         *)
(* `object` and a fill's `src` name the object (by its position in the       *)
(* scene) and the fill of that object they were copied from.                 *)

Batch_new == [fills |-> <<>>, mask_tiles |-> <<>>]

Batch_is_empty(batch) == batch.mask_tiles = <<>>

\* "Copy mask tiles": the for loop over object.tiles from tile_index on;
\* map is object_tile_index_to_batch_mask_tile_index
RECURSIVE copy_mask_tiles_uncapped(_, _, _, _, _, _)
copy_mask_tiles_uncapped(mask_tiles, map, object, buffer, object_index, tile_index) ==
    IF tile_index >= Len(object.tiles) THEN [mask_tiles |-> mask_tiles, map |-> map]
    ELSE LET tile == object.tiles[tile_index + 1]
         IN IF object.solid_tiles[tile_index + 1]
            THEN copy_mask_tiles_uncapped(mask_tiles, map, object, buffer,
                                          object_index, tile_index + 1)
            ELSE IF ~ZBuffer_test(buffer,
                                  scene_tile_index(tile.tile_x, tile.tile_y, SceneTileRect),
                                  U32(object_index))
            THEN copy_mask_tiles_uncapped(mask_tiles, map, object, buffer,
                                          object_index, tile_index + 1)
            ELSE copy_mask_tiles_uncapped(
                        Append(mask_tiles, [tile |-> tile, shader |-> object.shader,
                                            object |-> object_index]),
                        [map EXCEPT ![tile_index + 1] = U16(Len(mask_tiles))],
                        object, buffer, object_index, tile_index + 1)

RECURSIVE copy_mask_tiles(_, _, _, _, _, _)
copy_mask_tiles(mask_tiles, map, object, buffer, object_index, tile_index) ==
    IF tile_index >= Len(object.tiles) THEN [mask_tiles |-> mask_tiles, map |-> map]
    ELSE LET tile == object.tiles[tile_index + 1]
             batch_mask_tile_index == U16(Len(mask_tiles))
         IN IF object.solid_tiles[tile_index + 1]
            THEN copy_mask_tiles(mask_tiles, map, object, buffer,
                                 object_index, tile_index + 1)
            ELSE IF ~ZBuffer_test(buffer,
                                  scene_tile_index(tile.tile_x, tile.tile_y, SceneTileRect),
                                  U32(object_index))
            THEN copy_mask_tiles(mask_tiles, map, object, buffer,
                                 object_index, tile_index + 1)
            ELSE IF batch_mask_tile_index = MAX_MASKS_PER_BATCH
            THEN [mask_tiles |-> mask_tiles, map |-> map]
            ELSE copy_mask_tiles(
                        Append(mask_tiles, [tile |-> tile, shader |-> object.shader,
                                            object |-> object_index]),
                        [map EXCEPT ![tile_index + 1] = batch_mask_tile_index],
                        object, buffer, object_index, tile_index + 1)

\* "Remap and copy fills": the for loop over object.fills from fill i on
RECURSIVE copy_fills(_, _, _, _, _)
copy_fills(fills, map, object, object_index, i) ==
    IF i >= Len(object.fills) THEN fills
    ELSE LET fill == object.fills[i + 1]
             object_tile_index == tile_coords_to_index(object, fill.tile_x, fill.tile_y)
             mask_tile_index == map[object_tile_index + 1]
         IN copy_fills(IF mask_tile_index < U16_MAX
                       THEN Append(fills, [px |-> fill.px,
                                           mask_tile_index |-> mask_tile_index,
                                           src |-> [object |-> object_index, fill |-> i]])
                       ELSE fills,
                       map, object, object_index, i + 1)

\* the while loop of build_batch from current_object_index = i on.  An object
\* without tiles and fills leaves the batch as it is and never reaches the
\* break (the batch holds at most MAX_FILLS_PER_BATCH fills), so the positions
\* up to the next modelled object are taken in one stride.
RECURSIVE build_batch_loop(_, _, _, _)
build_batch_loop(batch, objs, buffer, i) ==
    IF ~(i < objects_len) THEN [batch |-> batch, current_object_index |-> i]
    ELSE IF ~IsModelled(i) THEN build_batch_loop(batch, objs, buffer, NextModelled(i))
    ELSE LET object == ObjectAt(objs, i)
         IN IF Len(batch.fills) + Len(object.fills) > MAX_FILLS_PER_BATCH
            THEN [batch |-> batch, current_object_index |-> i]
            ELSE LET masks == copy_mask_tiles(batch.mask_tiles,
                                              [t \in 1..Len(object.tiles) |-> U16_MAX],
                                              object, buffer, i, 0)
                     fills == copy_fills(batch.fills, masks.map, object, i, 0)
                 IN build_batch_loop([fills |-> fills, mask_tiles |-> masks.mask_tiles],
                                     objs, buffer, i + 1)

\* build_batch: `returned` is FALSE for None
build_batch(objs, buffer, i) ==
    LET r == build_batch_loop(Batch_new, objs, buffer, i)
    IN [returned |-> ~Batch_is_empty(r.batch), batch |-> r.batch,
        current_object_index |-> r.current_object_index]

\* one turn of main's `while let Some(batch) = scene_builder.build_batch()`
BuildBatch ==
    /\ m_pc = "build_batch"
    /\ LET r == build_batch(built_objects, zbuf, current_object_index)
       IN /\ current_object_index' = r.current_object_index
          /\ IF r.returned
             THEN /\ batches' = Append(batches, r.batch)
                  /\ m_pc' = m_pc
             ELSE /\ batches' = batches
                  /\ m_pc' = "done"
    /\ UNCHANGED <<position, runs, objects, w_pc, w_tile, w_old, completed, zbuf,
                   built_objects, solid_tiles, sv_vars,
                   path_vars, transform_vars, tiler_vars>>

----------------------------------------------------------------------------
(* The specification of the scene pipeline *)

SvIdle ==
    /\ sv_values = <<>>
    /\ sv_array = <<>>
    /\ sv_pushed = 0
    /\ sv_results = <<>>

Init ==
    /\ SvIdle
    /\ view_box = ViewBox
    /\ position \in IndexChoices
    /\ runs \in [Slots -> TilerRuns]
    /\ objects = [k \in Slots |-> Tiler_new(k)]
    /\ w_pc = [k \in Slots |-> "start"]
    /\ w_tile = [k \in Slots |-> 0]
    /\ w_old = [k \in Slots |-> 0]
    /\ completed = <<>>
    /\ zbuf = ZBuffer_new
    /\ m_pc = "build_objects"
    /\ built_objects = <<>>
    /\ current_object_index = 0
    /\ solid_tiles = <<>>
    /\ batches = <<>>
    /\ PathIdle /\ TransformIdle
    /\ outlines = <<>>
    /\ tilers = <<>>

Next ==
    \/ \E k \in Slots : GenerateTiles(k)
    \/ \E k \in Slots : UpdateLoad(k)
    \/ \E k \in Slots : UpdateCas(k)
    \/ Join
    \/ BuildSolidTiles
    \/ BuildBatch

Spec == Init /\ [][Next]_vars

----------------------------------------------------------------------------
(* C1 *)

Count(s, x) == Cardinality({i \in DOMAIN s : s[i] = x})

IsSorted(s) == \A i \in 1..(Len(s) - 1) : s[i] <= s[i + 1]

\* s is sort(t): non-decreasing and a rearrangement of t
IsSortOf(s, t) ==
    /\ Len(s) = Len(t)
    /\ IsSorted(s)
    /\ \A x \in Range(s) \cup Range(t) : Count(s, x) = Count(t, x)

\* C1: pushing the values of any list V one by one into an empty SortedVector
\* and popping until it is empty returns each element of V exactly once, every
\* pop returning the largest value still held, so that the pops reversed are
\* sort(V).
C1_PopAllIsSort ==
    /\ \A i \in DOMAIN sv_results :
          /\ \A j \in (i + 1)..Len(sv_results) : sv_results[j] <= sv_results[i]
          /\ \A k \in DOMAIN sv_array : sv_array[k] <= sv_results[i]
    /\ SvDone => IsSortOf(Reverse(sv_results), sv_values)

\* a list with a repeated value and an inversion has been pushed and popped
C1_Witness ==
    /\ SvDone
    /\ Len(sv_values) >= 3
    /\ \E i, j \in DOMAIN sv_values : i < j /\ sv_values[i] > sv_values[j]
    /\ \E i, j \in DOMAIN sv_values : i < j /\ sv_values[i] = sv_values[j]
    /\ Len(sv_results) = Len(sv_values)

----------------------------------------------------------------------------
(* Scene::build_objects_sequentially: the closure run on one object after    *)
(* the other, each Tiler::cull to its end                                    *)

RECURSIVE cull_alone(_, _, _, _)
cull_alone(buffer, object, k, from) ==
    LET i == cull_next(object, from)
    IN IF i >= Len(object.tiles) THEN buffer
       ELSE cull_alone(ZBuffer_update(buffer, update_cell(object, i), Tiler_object_index(k)),
                       object, k, i + 1)

RECURSIVE build_objects_sequentially_from(_, _, _)
build_objects_sequentially_from(built, buffer, k) ==
    IF k > Len(position) THEN [objects |-> built, z_buffer |-> buffer]
    ELSE LET object == generate_strips(Tiler_new(k), runs[k].trace)
         IN build_objects_sequentially_from(Append(built, object),
                                            cull_alone(buffer, object, k, 0), k + 1)

build_objects_sequentially == build_objects_sequentially_from(<<>>, ZBuffer_new, 1)

----------------------------------------------------------------------------
(* Vocabulary of the claims about the scene *)

AllTilersDone == \A k \in Slots : w_pc[k] = "done"

SceneCells == DOMAIN ZBuffer_new

MaxOf(S) == CHOOSE m \in S : \A n \in S : n <= m

\* the scene tile (cell of the Z-buffer) of a tile of an object
CellOf(tile) == scene_tile_index(tile.tile_x, tile.tile_y, SceneTileRect)

\* tile t (1-based) of the object is an opaque solid tile
IsOpaqueSolid(object, t) == object.solid_tiles[t] /\ object.tiles[t].backdrop # 0

\* the modelled objects with an opaque solid tile at the cell
OpaqueAt(objs, cell) ==
    {k \in Slots : \E t \in DOMAIN objs[k].tiles :
                      IsOpaqueSolid(objs[k], t) /\ CellOf(objs[k].tiles[t]) = cell}

\* worker k has called ZBuffer::update on the cell
HasCalledUpdate(k, cell) ==
    \E t \in DOMAIN objects[k].tiles :
        /\ IsOpaqueSolid(objects[k], t)
        /\ CellOf(objects[k].tiles[t]) = cell
        /\ \/ w_pc[k] = "done"
           \/ w_pc[k] \in {"load", "cas"} /\ w_tile[k] >= t - 1

\* the mask tiles of all batches, in the order of the batches
RECURSIVE AllMaskTiles(_)
AllMaskTiles(bs) == IF bs = <<>> THEN <<>> ELSE Head(bs).mask_tiles \o AllMaskTiles(Tail(bs))

----------------------------------------------------------------------------
(* C2 *)

\* C2: once every per-object tiler has finished, whatever the interleaving of
\* their ZBuffer::update calls, every Z-buffer cell holds the largest
\* object_index + 1 over the objects with an opaque solid tile (solid_tiles
\* bit set, backdrop # 0) at that scene tile, and 0 if there is none.
C2_ZBufferIsMaxDepth ==
    AllTilersDone =>
        \A cell \in SceneCells :
            zbuf[cell] = MaxOf({position[k] + 1 : k \in OpaqueAt(objects, cell)} \cup {0})

----------------------------------------------------------------------------
(* C3 *)

\* C3: no step of any ZBuffer::update, a lost compare-and-swap and its retry
\* included, lowers a Z-buffer cell, in any interleaving; and a cell only ever
\* holds 0 or object_index + 1 for the object_index some update was called
\* with on that cell.
C3_CellsNeverDecrease ==
    /\ [][\A cell \in SceneCells : zbuf'[cell] >= zbuf[cell]]_vars
    /\ [](\A cell \in SceneCells :
             \/ zbuf[cell] = 0
             \/ \E k \in Slots : /\ HasCalledUpdate(k, cell)
                                 /\ zbuf[cell] = Tiler_object_index(k) + 1)

\* a worker that lost its compare-and-swap to a larger depth: the cell has
\* moved on from the old_depth it loaded, and holds the other worker's depth
C3_Witness ==
    \E k \in Slots :
        /\ w_pc[k] = "cas"
        /\ zbuf[update_cell(objects[k], w_tile[k])] # w_old[k]
        /\ zbuf[update_cell(objects[k], w_tile[k])] > new_depth(Tiler_object_index(k))

----------------------------------------------------------------------------
(* C4 *)

\* C4: build_batch emits a tile of object i as a mask tile only if the tile is
\* not solid for that object and ZBuffer::test passes (cell < i + 1); hence no
\* batch holds a mask tile of object i at a scene tile where an object with a
\* larger index has an opaque solid tile.
C4_NoOccludedMaskTile ==
    \A b \in DOMAIN batches : \A m \in DOMAIN batches[b].mask_tiles :
        LET mask == batches[b].mask_tiles[m]
            object == ObjectAt(built_objects, mask.object)
            t == tile_coords_to_index(object, mask.tile.tile_x, mask.tile.tile_y) + 1
        IN /\ ~object.solid_tiles[t]
           /\ zbuf[CellOf(mask.tile)] < mask.object + 1
           /\ \A k \in OpaqueAt(built_objects, CellOf(mask.tile)) :
                  ~(position[k] > mask.object)

----------------------------------------------------------------------------
(* C5 *)

\* tile t of the modelled object k is to be drawn as a mask tile
IsVisibleMask(k, t) ==
    /\ ~built_objects[k].solid_tiles[t]
    /\ ZBuffer_test(zbuf, CellOf(built_objects[k].tiles[t]), position[k])

\* the places <<batch, mask tile index>> where the tile is a mask tile
MaskPlaces(k, t) ==
    {bm \in {<<b, m>> : b \in DOMAIN batches, m \in 1..MAX_MASKS_PER_BATCH} :
        /\ bm[2] <= Len(batches[bm[1]].mask_tiles)
        /\ batches[bm[1]].mask_tiles[bm[2]].object = position[k]
        /\ batches[bm[1]].mask_tiles[bm[2]].tile = built_objects[k].tiles[t]}

\* C5: calling build_batch until it returns None emits every non-solid,
\* non-occluded tile of every object as a mask tile in exactly one batch, and
\* every fill of such a tile in that same batch: a full batch is closed and
\* the next receives the remaining tiles and fills, none is dropped.
C5_NothingDropped ==
    m_pc = "done" =>
        \A k \in Slots : \A t \in DOMAIN built_objects[k].tiles :
            IsVisibleMask(k, t) =>
                /\ Cardinality(MaskPlaces(k, t)) = 1
                /\ \A bm \in MaskPlaces(k, t) :
                     \A i \in DOMAIN built_objects[k].fills :
                        tile_coords_to_index(built_objects[k],
                                             built_objects[k].fills[i].tile_x,
                                             built_objects[k].fills[i].tile_y) = t - 1
                        => \E f \in DOMAIN batches[bm[1]].fills :
                              /\ batches[bm[1]].fills[f].src =
                                     [object |-> position[k], fill |-> i - 1]
                              /\ batches[bm[1]].fills[f].mask_tile_index = bm[2] - 1

----------------------------------------------------------------------------
(* C6 *)

\* C6: every batch build_batch returns, for every list of built objects, has
\* at most MAX_FILLS_PER_BATCH fills and at most MAX_MASKS_PER_BATCH mask tiles.
C6_BatchWithinCapacity ==
    \A b \in DOMAIN batches :
        /\ Len(batches[b].fills) <= MAX_FILLS_PER_BATCH
        /\ Len(batches[b].mask_tiles) <= MAX_MASKS_PER_BATCH

\* a batch holds as many mask tiles as a batch may and a batch as many
\* fills, in a scene with more visible mask tiles than one batch takes
C6_Witness ==
    /\ \E b \in DOMAIN batches : Len(batches[b].mask_tiles) = MAX_MASKS_PER_BATCH
    /\ \E b \in DOMAIN batches : Len(batches[b].fills) = MAX_FILLS_PER_BATCH
    /\ Cardinality({<<k, t>> \in Slots \X (1..2) :
                       t \in DOMAIN built_objects[k].tiles /\ IsVisibleMask(k, t)})
          > MAX_MASKS_PER_BATCH

----------------------------------------------------------------------------
(* C7 *)

\* C7: every fill of a batch has mask_tile_index < |mask_tiles| of that batch,
\* and the mask tile it refers to has the tile coordinates of the object fill
\* it was copied from and the shader of the object that produced the fill; a
\* fill whose tile was not emitted as a mask tile is not copied.
C7_FillsReferToTheirTile ==
    \A b \in DOMAIN batches : \A f \in DOMAIN batches[b].fills :
        LET fill == batches[b].fills[f]
            object == ObjectAt(built_objects, fill.src.object)
            from == object.fills[fill.src.fill + 1]
        IN /\ fill.mask_tile_index < Len(batches[b].mask_tiles)
           /\ LET mask == batches[b].mask_tiles[fill.mask_tile_index + 1]
              IN /\ mask.tile.tile_x = from.tile_x
                 /\ mask.tile.tile_y = from.tile_y
                 /\ mask.shader = object.shader
                 /\ mask.object = fill.src.object

----------------------------------------------------------------------------
(* C8 *)

\* the tiling of the k-th modelled object taken alone
TilingOf(k) == generate_strips(Tiler_new(k), runs[k].trace)

\* C8: results are assembled in paint order whatever the order in which the
\* parallel workers complete: element i of the vector build_objects returns
\* is the tiling of scene object i, and over the batches build_batch returns,
\* in order (and within each batch), the mask tiles come in non-decreasing
\* object index.
C8_PaintOrderKept ==
    /\ m_pc # "build_objects" =>
          \A k \in Slots : built_objects[k] = TilingOf(k)
    /\ LET masks == AllMaskTiles(batches)
       IN \A i, j \in DOMAIN masks : i < j => masks[i].object <= masks[j].object

\* the last object's worker returned first, and the batches hold mask tiles
\* of two objects
C8_Witness ==
    /\ m_pc = "done"
    /\ completed[1] = NumObjects
    /\ Cardinality({AllMaskTiles(batches)[i].object : i \in DOMAIN AllMaskTiles(batches)}) >= 2

----------------------------------------------------------------------------
(* C9 *)

\* C9: for the same scene and view box, build_objects under every schedule of
\* its workers and build_objects_sequentially give the same vector of
\* BuiltObjects and leave the Z-buffer in the same final state.
C9_ParallelEqualsSequential ==
    /\ AllTilersDone =>
          /\ zbuf = build_objects_sequentially.z_buffer
          /\ objects = build_objects_sequentially.objects
    /\ m_pc # "build_objects" =>
          built_objects = build_objects_sequentially.objects

\* two objects culled the same cell, the later one of the scene finished
\* first, and the vector has been returned
C9_Witness ==
    /\ m_pc = "build_solid_tiles"
    /\ completed[1] # 1
    /\ \E cell \in SceneCells :
          /\ Cardinality(OpaqueAt(objects, cell)) >= 2
          /\ zbuf[cell] > 1

----------------------------------------------------------------------------
(* C10 *)

\* C10: build_solid_tiles returns exactly one SolidTileScenePrimitive per
\* non-zero Z-buffer cell and none for a zero cell, in row-major order of the
\* cells, each with the cell's position plus the tile rect's origin as its
\* coordinates and the shader of the object whose index is the cell's value
\* minus 1.
C10_SolidTilesFromZBuffer ==
    m_pc \in {"build_batch", "done"} =>
        LET covered == {c \in SceneCells : zbuf[c] # 0}
        IN /\ Len(solid_tiles) = Cardinality(covered)
           /\ \A c \in covered :
                 solid_tiles[Cardinality({d \in covered : d <= c})] =
                    [tile_x |-> (c % SceneTileRect.w) + SceneTileRect.x,
                     tile_y |-> (c \div SceneTileRect.w) + SceneTileRect.y,
                     shader |-> ObjectAt(built_objects, zbuf[c] - 1).shader]

\* solid tiles of two objects in the second column of the first row and the
\* first column of the second, and a cell without one
C10_Witness ==
    /\ m_pc = "done"
    /\ zbuf[0] = 0 /\ zbuf[1] # 0 /\ zbuf[2] # 0
    /\ Len(solid_tiles) >= 2
    /\ solid_tiles[1].shader # solid_tiles[2].shader

----------------------------------------------------------------------------
(* C11 *)

\* the BuiltObject of the k-th modelled object after the first n calls
\* (add_fill, backdrop assignment) of its tiling
TilingAfter(k, n) == generate_strips(Tiler_new(k), SubSeq(runs[k].trace, 1, n))

\* tiles are as many as the tile rect has, and the tile of every fill is out
\* of solid_tiles
BuiltObjectWellFormed(object) ==
    /\ Len(object.tiles) = object.tile_rect.w * object.tile_rect.h
    /\ Len(object.solid_tiles) = Len(object.tiles)
    /\ \A f \in DOMAIN object.fills :
          LET tile_index ==
                tile_coords_to_index(object, object.fills[f].tile_x, object.fills[f].tile_y)
          IN /\ tile_index < Len(object.tiles)
             /\ ~object.solid_tiles[tile_index + 1]

----------------------------------------------------------------------------
(* Transform2DF32.  A transform is [matrix, vector]: matrix the four lanes   *)
(* <<m11, m12, m21, m22>> of the row-major SSE register, vector the point    *)
(* <<m31, m32>>.  Lane i of the code is element i + 1 here.                   *)

\* no scene is being built
SceneIdle ==
    /\ position = <<>> /\ runs = <<>> /\ objects = <<>>
    /\ w_pc = <<>> /\ w_tile = <<>> /\ w_old = <<>> /\ completed = <<>>
    /\ zbuf = <<>> /\ m_pc = "" /\ built_objects = <<>>
    /\ current_object_index = 0 /\ solid_tiles = <<>> /\ batches = <<>>

\* Sse41::shuffle_ps(a, b, imm8): lanes 0 and 1 from a, lanes 2 and 3 from b,
\* each picked by two bits of imm8
shuffle_ps(a, b, imm8) ==
    <<a[(imm8 % 4) + 1],
      a[((imm8 \div 4) % 4) + 1],
      b[((imm8 \div 16) % 4) + 1],
      b[((imm8 \div 64) % 4) + 1]>>

mul_ps(a, b) == [i \in 1..4 |-> a[i] * b[i]]

add_ps(a, b) == [i \in 1..4 |-> a[i] + b[i]]

\* a Point2DF32 as the register that holds it: x and y in lanes 0 and 1
Point2DF32_lanes(point) == <<point[1], point[2], 0, 0>>

Transform2DF32_row_major(m11, m12, m21, m22, m31, m32) ==
    [matrix |-> <<m11, m12, m21, m22>>, vector |-> <<m31, m32>>]

transform_point(transform, point) ==
    LET xxyy == shuffle_ps(Point2DF32_lanes(point), Point2DF32_lanes(point), 80)
        x11_x12_y21_y22 == mul_ps(xxyy, transform.matrix)
        y21_y22 == shuffle_ps(x11_x12_y21_y22, x11_x12_y21_y22, 14)
        sum == add_ps(add_ps(x11_x12_y21_y22, y21_y22),
                      Point2DF32_lanes(transform.vector))
    IN <<sum[1], sum[2]>>

\* `a` is self and `b` is other
post_mul(a, b) ==
    LET a11a21a11a21 == shuffle_ps(a.matrix, a.matrix, 136)
        b11b11b12b12 == shuffle_ps(b.matrix, b.matrix, 80)
        lhs == mul_ps(a11a21a11a21, b11b11b12b12)
        a12a22a12a22 == shuffle_ps(a.matrix, a.matrix, 221)
        b21b21b22b22 == shuffle_ps(b.matrix, b.matrix, 250)
        rhs == mul_ps(a12a22a12a22, b21b21b22b22)
        moved == transform_point(b, a.vector)
    IN [matrix |-> add_ps(lhs, rhs),
        vector |-> <<moved[1] + b.vector[1], moved[2] + b.vector[2]>>]

pre_mul(a, b) == post_mul(b, a)

\* the transforms and points put to the test: the identity, a scale, a
\* quarter turn and a shear, each with and without a translation
XfMatrices == {<<1, 0, 0, 1>>, <<2, 0, 0, 3>>, <<0, 1, -1, 0>>, <<1, 1, 0, 1>>}

XfVectors == {<<0, 0>>, <<1, 2>>}

XfTransforms ==
    {Transform2DF32_row_major(m[1], m[2], m[3], m[4], v[1], v[2]) :
        m \in XfMatrices, v \in XfVectors}

XfPoints == {<<1, 0>>, <<2, 5>>}

XfInit ==
    /\ xf_a \in XfTransforms
    /\ xf_b \in XfTransforms
    /\ xf_point \in XfPoints
    /\ xf_results = <<>>
    /\ SvIdle /\ SceneIdle /\ PathIdle /\ TilerIdle

\* process_node's transform.pre_mul(&node_transform), and the points the
\* transforms take xf_point to
XfCompose ==
    /\ xf_results = <<>>
    /\ xf_results' = [post |-> post_mul(xf_a, xf_b),
                      pre |-> pre_mul(xf_a, xf_b),
                      post_reversed |-> post_mul(xf_b, xf_a),
                      composed |-> transform_point(post_mul(xf_a, xf_b), xf_point),
                      in_turn |-> transform_point(xf_b, transform_point(xf_a, xf_point))]
    /\ UNCHANGED <<xf_a, xf_b, xf_point, sv_vars, scene_vars, path_vars, tiler_vars>>

XfNext == XfCompose

SpecTransform == XfInit /\ [][XfNext]_vars

----------------------------------------------------------------------------
(* C17 *)

\* the product A * B of two 2x2 matrices held row-major
MatrixProduct(a, b) ==
    <<a[1] * b[1] + a[2] * b[3], a[1] * b[2] + a[2] * b[4],
      a[3] * b[1] + a[4] * b[3], a[3] * b[2] + a[4] * b[4]>>

\* the row vector v times the matrix m
VectorTimesMatrix(v, m) == <<v[1] * m[1] + v[2] * m[3], v[1] * m[2] + v[2] * m[4]>>

\* C17: post_mul is standard affine composition: for all transforms A, B and
\* points p, A.post_mul(B).transform_point(p) is
\* B.transform_point(A.transform_point(p)), the composed matrix is A * B and
\* the composed translation is A.translate * B + B.translate; and
\* A.pre_mul(B) = B.post_mul(A).
C17_PostMulIsComposition ==
    xf_results # <<>> =>
        /\ xf_results.composed = xf_results.in_turn
        /\ xf_results.post.matrix = MatrixProduct(xf_a.matrix, xf_b.matrix)
        /\ xf_results.post.vector =
              LET moved == VectorTimesMatrix(xf_a.vector, xf_b.matrix)
              IN <<moved[1] + xf_b.vector[1], moved[2] + xf_b.vector[2]>>
        /\ xf_results.pre = xf_results.post_reversed

----------------------------------------------------------------------------
(* Path preprocessing.  Coordinates are exact rationals <<n, d>> (d > 0, in  *)
(* lowest terms) where the program has f32: the rounding of f32 is not       *)
(* modelled, the values f32 has besides the reals (infinities, NaN) are.     *)

RECURSIVE Gcd(_, _)
Gcd(a, b) == IF b = 0 THEN a ELSE Gcd(b, a % b)

Abs(a) == IF a < 0 THEN -a ELSE a

RatNorm(n, d) ==
    LET g == Gcd(Abs(n), Abs(d))
        sign == IF d < 0 THEN -1 ELSE 1
    IN <<sign * (n \div g), sign * (d \div g)>>

Rat(n) == <<n, 1>>

RatAdd(a, b) == RatNorm(a[1] * b[2] + b[1] * a[2], a[2] * b[2])

RatSub(a, b) == RatNorm(a[1] * b[2] - b[1] * a[2], a[2] * b[2])

RatMul(a, b) == RatNorm(a[1] * b[1], a[2] * b[2])

\* a / b for b # 0
RatDiv(a, b) == RatNorm(a[1] * b[2], a[2] * b[1])

RatLess(a, b) == a[1] * b[2] < b[1] * a[2]

\* the root of the square of a rational
RatSqrt(a) ==
    <<CHOOSE r \in 0..Abs(a[1]) : r * r = a[1], CHOOSE r \in 1..a[2] : r * r = a[2]>>

\* Point2DF32 and its operators
Point2DF32_new(x, y) == [x |-> x, y |-> y]

Point2DF32_default == Point2DF32_new(Rat(0), Rat(0))

Point2DF32_add(a, b) == Point2DF32_new(RatAdd(a.x, b.x), RatAdd(a.y, b.y))

Point2DF32_scale(a, k) == Point2DF32_new(RatMul(a.x, k), RatMul(a.y, k))

Point2DF32_min(a, b) ==
    Point2DF32_new(IF RatLess(b.x, a.x) THEN b.x ELSE a.x,
                   IF RatLess(b.y, a.y) THEN b.y ELSE a.y)

Point2DF32_max(a, b) ==
    Point2DF32_new(IF RatLess(a.x, b.x) THEN b.x ELSE a.x,
                   IF RatLess(a.y, b.y) THEN b.y ELSE a.y)

\* a + t * (b - a)
Lerp(a, b, t) ==
    Point2DF32_new(RatAdd(a.x, RatMul(t, RatSub(b.x, a.x))),
                   RatAdd(a.y, RatMul(t, RatSub(b.y, a.y))))

LineSegmentF32_new(from, to) == [from |-> from, to |-> to]

LineSegmentF32_default == LineSegmentF32_new(Point2DF32_default, Point2DF32_default)

\* Segment.  `origin` is history only, no field of the struct: the number of
\* the adapter's segment this one is, or is a piece of.
FIRST_IN_SUBPATH == "FIRST_IN_SUBPATH"

CLOSES_SUBPATH == "CLOSES_SUBPATH"

Segment_none ==
    [baseline |-> LineSegmentF32_default, ctrl |-> LineSegmentF32_default,
     kind |-> "None", flags |-> {}, origin |-> 0]

Segment_line(line) ==
    [baseline |-> line, ctrl |-> LineSegmentF32_default,
     kind |-> "Line", flags |-> {}, origin |-> 0]

\* a quadratic is made with kind Cubic
Segment_quadratic(baseline, ctrl) ==
    [baseline |-> baseline, ctrl |-> LineSegmentF32_new(ctrl, Point2DF32_default),
     kind |-> "Cubic", flags |-> {}, origin |-> 0]

Segment_cubic(baseline, ctrl) ==
    [baseline |-> baseline, ctrl |-> ctrl, kind |-> "Cubic", flags |-> {}, origin |-> 0]

is_none(segment) == segment.kind = "None"

is_line(segment) == segment.kind = "Line"

is_quadratic(segment) == segment.kind = "Quadratic"

is_cubic(segment) == segment.kind = "Cubic"

to_cubic(segment) ==
    IF is_cubic(segment) THEN segment
    ELSE LET p1_2 == Point2DF32_add(segment.ctrl.from, segment.ctrl.from)
         IN [segment EXCEPT
               !.ctrl = LineSegmentF32_new(
                           Point2DF32_scale(Point2DF32_add(segment.baseline.from, p1_2),
                                            <<1, 3>>),
                           Point2DF32_scale(Point2DF32_add(p1_2, segment.baseline.to),
                                            <<1, 3>>))]

\* Option<T>: None, or Some(x)
None == <<>>

Some(x) == <<x>>

\* the adapter's fields as one value; `log` is history only, the segments it
\* has returned with the number of the event each was made from
AdapterIter ==
    [consumed |-> consumed, first_subpath_point |-> first_subpath_point,
     last_subpath_point |-> last_subpath_point, just_moved |-> just_moved,
     log |-> segments, panicked |-> FALSE]

\* a with_flag that sets the flag whatever the condition
with_flag_always(segment, flag, condition) ==
    [segment EXCEPT !.flags = @ \cup {flag}]

with_flag(segment, flag, condition) ==
    IF condition THEN [segment EXCEPT !.flags = @ \cup {flag}] ELSE segment

\* what every arm of next that returns a segment does to the adapter
returned(iter, n, segment, last) ==
    LET numbered == [segment EXCEPT !.origin = Len(iter.log) + 1]
    IN [iter |-> [iter EXCEPT !.consumed = n, !.last_subpath_point = last,
                              !.just_moved = FALSE,
                              !.log = Append(@, [segment |-> numbered, event |-> n])],
        item |-> Some(numbered)]

\* UsvgPathToSegments::next; MoveTo, LineTo, CubicTo and Close stand for
\* usvg's MoveTo, LineTo, CurveTo and ClosePath
RECURSIVE UsvgPathToSegments_next(_)
UsvgPathToSegments_next(iter) ==
    IF iter.consumed = Len(events) THEN [iter |-> iter, item |-> None]
    ELSE LET n == iter.consumed + 1
             event == events[n]
         IN CASE event.op = "MoveTo" ->
                   UsvgPathToSegments_next(
                       [iter EXCEPT !.consumed = n, !.first_subpath_point = event.to,
                                    !.last_subpath_point = event.to,
                                    !.just_moved = TRUE])
              [] event.op = "LineTo" ->
                   returned(iter, n,
                       with_flag(Segment_line(
                                     LineSegmentF32_new(iter.last_subpath_point, event.to)),
                                 FIRST_IN_SUBPATH, iter.just_moved),
                       event.to)
              [] event.op = "CubicTo" ->
                   returned(iter, n,
                       with_flag(Segment_cubic(
                                     LineSegmentF32_new(iter.last_subpath_point, event.to),
                                     LineSegmentF32_new(event.ctrl0, event.ctrl1)),
                                 FIRST_IN_SUBPATH, iter.just_moved),
                       event.to)
              [] event.op = "Close" ->
                   returned(iter, n,
                       with_flag(Segment_line(
                                     LineSegmentF32_new(iter.last_subpath_point,
                                                        iter.first_subpath_point)),
                                 CLOSES_SUBPATH, TRUE),
                       iter.first_subpath_point)

\* an arm that ends the stream without a word
arc_event_ends_stream(iter, n) ==
    [iter |-> [iter EXCEPT !.consumed = n], item |-> None]

\* `PathEvent::Arc(..) => panic!("TODO: arcs")`: the event is taken from the
\* iterator and next never returns
arc_event(iter, n) ==
    [iter |-> [iter EXCEPT !.consumed = n, !.panicked = TRUE], item |-> None]

\* PathEventsToSegments::next
RECURSIVE PathEventsToSegments_next(_)
PathEventsToSegments_next(iter) ==
    IF iter.consumed = Len(events) THEN [iter |-> iter, item |-> None]
    ELSE LET n == iter.consumed + 1
             event == events[n]
         IN CASE event.op = "MoveTo" ->
                   PathEventsToSegments_next(
                       [iter EXCEPT !.consumed = n, !.first_subpath_point = event.to,
                                    !.last_subpath_point = event.to,
                                    !.just_moved = TRUE])
              [] event.op = "LineTo" ->
                   returned(iter, n,
                       with_flag(Segment_line(
                                     LineSegmentF32_new(iter.last_subpath_point, event.to)),
                                 FIRST_IN_SUBPATH, iter.just_moved),
                       event.to)
              [] event.op = "QuadraticTo" ->
                   returned(iter, n,
                       with_flag(Segment_quadratic(
                                     LineSegmentF32_new(iter.last_subpath_point, event.to),
                                     event.ctrl),
                                 FIRST_IN_SUBPATH, iter.just_moved),
                       event.to)
              [] event.op = "CubicTo" ->
                   returned(iter, n,
                       with_flag(Segment_cubic(
                                     LineSegmentF32_new(iter.last_subpath_point, event.to),
                                     LineSegmentF32_new(event.ctrl0, event.ctrl1)),
                                 FIRST_IN_SUBPATH, iter.just_moved),
                       event.to)
              [] event.op = "Close" ->
                   returned(iter, n,
                       with_flag(Segment_line(
                                     LineSegmentF32_new(iter.last_subpath_point,
                                                        iter.first_subpath_point)),
                                 CLOSES_SUBPATH, TRUE),
                       iter.first_subpath_point)
              [] event.op = "Arc" -> arc_event(iter, n)

iter_next(iter) ==
    IF adapter = "usvg" THEN UsvgPathToSegments_next(iter)
    ELSE PathEventsToSegments_next(iter)

\* CubicSegment::y_extrema.  v1 * v1 - v0 * v2 below zero has the root NaN,
\* and a zero v0_to_v1 + v2_to_v1 has denom infinite and both t infinite or
\* NaN: every comparison with them is false.
EPSILON == <<1, 1000>>

in_range(t) == RatLess(EPSILON, t) /\ RatLess(t, RatSub(Rat(1), EPSILON))

\* the match at the end of y_extrema
y_extrema_match(t0, t1) ==
    CASE ~in_range(t0) /\ ~in_range(t1) -> <<None, None>>
      [] in_range(t0) /\ ~in_range(t1) -> <<Some(t0), None>>
      [] ~in_range(t0) /\ in_range(t1) -> <<Some(t1), None>>
      [] in_range(t0) /\ in_range(t1) ->
           <<Some(IF RatLess(t1, t0) THEN t1 ELSE t0),
             Some(IF RatLess(t1, t0) THEN t0 ELSE t1)>>

\* t0 and t1 of y_extrema from v0 - v1, the root and v0_to_v1 + v2_to_v1
y_extrema_roots(v0_to_v1, discrim, sum) ==
    y_extrema_match(RatDiv(RatAdd(v0_to_v1, discrim), sum),
                    RatDiv(RatSub(v0_to_v1, discrim), sum))

y_extrema_of(v0, v1, v2, square) ==
    IF RatLess(square, Rat(0)) \/ RatAdd(RatSub(v0, v1), RatSub(v2, v1)) = Rat(0)
    THEN <<None, None>>
    ELSE y_extrema_roots(RatSub(v0, v1), RatSqrt(square),
                         RatAdd(RatSub(v0, v1), RatSub(v2, v1)))

y_extrema_velocities(v0, v1, v2) ==
    y_extrema_of(v0, v1, v2, RatSub(RatMul(v1, v1), RatMul(v0, v2)))

y_extrema(segment) ==
    y_extrema_velocities(RatSub(segment.ctrl.from.y, segment.baseline.from.y),
                         RatSub(segment.ctrl.to.y, segment.ctrl.from.y),
                         RatSub(segment.baseline.to.y, segment.ctrl.to.y))

\* CubicSegment::split: de Casteljau at t; the first piece keeps
\* FIRST_IN_SUBPATH, the second CLOSES_SUBPATH
\* a split whose pieces both keep the flags of the segment
split_pieces_keeps_flags(segment, p01, p012, p0123, p123, p23) ==
    <<[baseline |-> LineSegmentF32_new(segment.baseline.from, p0123),
       ctrl |-> LineSegmentF32_new(p01, p012),
       kind |-> "Cubic",
       flags |-> segment.flags,
       origin |-> segment.origin],
      [baseline |-> LineSegmentF32_new(p0123, segment.baseline.to),
       ctrl |-> LineSegmentF32_new(p123, p23),
       kind |-> "Cubic",
       flags |-> segment.flags,
       origin |-> segment.origin]>>

split_pieces(segment, p01, p012, p0123, p123, p23) ==
    <<[baseline |-> LineSegmentF32_new(segment.baseline.from, p0123),
       ctrl |-> LineSegmentF32_new(p01, p012),
       kind |-> "Cubic",
       flags |-> segment.flags \cap {FIRST_IN_SUBPATH},
       origin |-> segment.origin],
      [baseline |-> LineSegmentF32_new(p0123, segment.baseline.to),
       ctrl |-> LineSegmentF32_new(p123, p23),
       kind |-> "Cubic",
       flags |-> segment.flags \cap {CLOSES_SUBPATH},
       origin |-> segment.origin]>>

split_third(segment, t, p01, p23, p012, p123) ==
    split_pieces(segment, p01, p012, Lerp(p012, p123, t), p123, p23)

split_second(segment, t, p01, p12, p23) ==
    split_third(segment, t, p01, p23, Lerp(p01, p12, t), Lerp(p12, p23, t))

CubicSegment_split(segment, t) ==
    split_second(segment, t,
                 Lerp(segment.baseline.from, segment.ctrl.from, t),
                 Lerp(segment.ctrl.from, segment.ctrl.to, t),
                 Lerp(segment.ctrl.to, segment.baseline.to, t))

\* the arms of the match of handle_cubic; the buffer is a stack
handle_cubic_pieces(buffer, segment_2, segments_0_1) ==
    [buffer |-> buffer \o <<segment_2, segments_0_1[2]>>, item |-> Some(segments_0_1[1])]

handle_cubic_two(buffer, segments_01_2, t0, t1) ==
    handle_cubic_pieces(buffer, segments_01_2[2],
                        CubicSegment_split(segments_01_2[1], RatDiv(t0, t1)))

handle_cubic_one(buffer, segments_0_1) ==
    [buffer |-> Append(buffer, segments_0_1[2]), item |-> Some(segments_0_1[1])]

handle_cubic_match(buffer, segment, extrema) ==
    CASE extrema[1] # None /\ extrema[2] # None ->
           handle_cubic_two(buffer, CubicSegment_split(segment, extrema[2][1]),
                            extrema[1][1], extrema[2][1])
      [] extrema[1] # None /\ extrema[2] = None ->
           handle_cubic_one(buffer, CubicSegment_split(segment, extrema[1][1]))
      [] extrema[1] = None -> [buffer |-> buffer, item |-> Some(segment)]

\* MonotonicConversionIter::handle_cubic
handle_cubic(buffer, segment) == handle_cubic_match(buffer, segment, y_extrema(segment))

\* MonotonicConversionIter::next
RECURSIVE MonotonicConversionIter_next(_, _)
MonotonicConversionIter_next(buffer, iter) ==
    IF buffer # <<>>
    THEN [buffer |-> SubSeq(buffer, 1, Len(buffer) - 1), iter |-> iter,
          item |-> Some(buffer[Len(buffer)])]
    ELSE LET pulled == iter_next(iter)
         IN IF pulled.item = None
            THEN [buffer |-> buffer, iter |-> pulled.iter, item |-> None]
            ELSE LET segment == pulled.item[1]
                 IN CASE segment.kind = "None" ->
                           MonotonicConversionIter_next(buffer, pulled.iter)
                      [] segment.kind = "Line" ->
                           [buffer |-> buffer, iter |-> pulled.iter,
                            item |-> Some(segment)]
                      [] segment.kind = "Cubic" ->
                           LET out == handle_cubic(buffer, segment)
                           IN [buffer |-> out.buffer, iter |-> pulled.iter,
                               item |-> out.item]
                      [] segment.kind = "Quadratic" ->
                           LET out == handle_cubic(buffer, to_cubic(segment))
                           IN [buffer |-> out.buffer, iter |-> pulled.iter,
                               item |-> out.item]

\* Contour and Outline
Contour_new == [points |-> <<>>, flags |-> <<>>]

Contour_is_empty(contour) == contour.points = <<>>

CONTROL_POINT_0 == "CONTROL_POINT_0"

CONTROL_POINT_1 == "CONTROL_POINT_1"

PointFlags_empty == "empty"

RatRect_zero == [x |-> Rat(0), y |-> Rat(0), w |-> Rat(0), h |-> Rat(0)]

Outline_new == [contours |-> <<>>, bounds |-> RatRect_zero]

\* Rect::from_points of the two corners
Rect_from_points(upper_left, lower_right) ==
    LET low == Point2DF32_min(upper_left, lower_right)
        high == Point2DF32_max(upper_left, lower_right)
    IN [x |-> low.x, y |-> low.y, w |-> RatSub(high.x, low.x), h |-> RatSub(high.y, low.y)]

\* a push_point that only lets endpoints widen the bounding points
push_point_endpoints_only(building, point, flags) ==
    [building EXCEPT
       !.current_contour = [points |-> Append(@.points, point),
                            flags |-> Append(@.flags, flags)],
       !.bounding_points =
           IF @ = None THEN Some(<<point, point>>)
           ELSE IF flags # PointFlags_empty THEN @
           ELSE Some(<<Point2DF32_min(@[1][1], point), Point2DF32_max(@[1][2], point)>>)]

\* Contour::push_point on the contour being built
push_point(building, point, flags) ==
    [building EXCEPT
       !.current_contour = [points |-> Append(@.points, point),
                            flags |-> Append(@.flags, flags)],
       !.bounding_points =
           IF @ = None THEN Some(<<point, point>>)
           ELSE Some(<<Point2DF32_min(@[1][1], point), Point2DF32_max(@[1][2], point)>>)]

\* outline.contours.push(mem::replace(&mut current_contour, Contour::new()))
\* when the current contour has a point
flush_contour(building) ==
    IF Contour_is_empty(building.current_contour) THEN building
    ELSE [building EXCEPT !.outline.contours = Append(@, building.current_contour),
                          !.current_contour = Contour_new]

\* the body of the loop of Outline::from_segments
from_segments_body(building, segment) ==
    LET started ==
            IF FIRST_IN_SUBPATH \in segment.flags
            THEN push_point(flush_contour(building), segment.baseline.from,
                            PointFlags_empty)
            ELSE building
        ctrl_0 ==
            IF ~is_line(segment)
            THEN push_point(started, segment.ctrl.from, CONTROL_POINT_0)
            ELSE started
        ctrl_1 ==
            IF ~is_line(segment) /\ ~is_quadratic(segment)
            THEN push_point(ctrl_0, segment.ctrl.to, CONTROL_POINT_1)
            ELSE ctrl_0
    IN CASE CLOSES_SUBPATH \in segment.flags -> flush_contour(started)
         [] CLOSES_SUBPATH \notin segment.flags /\ is_none(segment) -> started
         [] OTHER -> push_point(ctrl_1, segment.baseline.to, PointFlags_empty)

\* what Outline::from_segments does once the segments have run out
from_segments_end(building) ==
    LET flushed == flush_contour(building)
    IN IF flushed.bounding_points = None THEN flushed
       ELSE [flushed EXCEPT
               !.outline.bounds = Rect_from_points(flushed.bounding_points[1][1],
                                                   flushed.bounding_points[1][2])]

Building ==
    [outline |-> outline, current_contour |-> current_contour,
     bounding_points |-> bounding_points]

\* The streams of events.  MaxEvents bounds their length.
MaxEvents == 4

Pt(x, y) == Point2DF32_new(Rat(x), Rat(y))

\* The y coordinates are such that, whatever the current point, v1 * v1 -
\* v0 * v2 of every curve is below zero or the square of an integer, which
\* is what RatSqrt can take the root of.
PathEvents ==
    {[op |-> "MoveTo", to |-> Pt(0, 3)],
     [op |-> "LineTo", to |-> Pt(8, 1)],
     [op |-> "QuadraticTo", ctrl |-> Pt(4, 8), to |-> Pt(8, 0)],
     [op |-> "CubicTo", ctrl0 |-> Pt(9, 6), ctrl1 |-> Pt(-1, 2), to |-> Pt(8, 6)],
     [op |-> "CubicTo", ctrl0 |-> Pt(2, 2), ctrl1 |-> Pt(6, 2), to |-> Pt(8, 3)],
     [op |-> "Close"]}

PathInit ==
    /\ SvIdle
    /\ SceneIdle
    /\ TransformIdle
    /\ TilerIdle
    /\ adapter \in {"usvg", "events"}
    /\ \E n \in 0..MaxEvents : events \in [1..n -> PathEvents]
    /\ adapter = "usvg" => \A i \in DOMAIN events : events[i].op # "QuadraticTo"
    /\ consumed = 0
    /\ first_subpath_point = Point2DF32_default
    /\ last_subpath_point = Point2DF32_default
    /\ just_moved = FALSE
    /\ segments = <<>>
    /\ mono_buffer = <<>>
    /\ emitted = <<>>
    /\ outline = Outline_new
    /\ current_contour = Contour_new
    /\ bounding_points = None
    /\ p_pc = "segments"

\* one turn of the loop of Outline::from_segments over
\* MonotonicConversionIter over the adapter
FromSegmentsSegment ==
    /\ p_pc = "segments"
    /\ LET pulled == MonotonicConversionIter_next(mono_buffer, AdapterIter)
       IN /\ pulled.item # None
          /\ mono_buffer' = pulled.buffer
          /\ consumed' = pulled.iter.consumed
          /\ first_subpath_point' = pulled.iter.first_subpath_point
          /\ last_subpath_point' = pulled.iter.last_subpath_point
          /\ just_moved' = pulled.iter.just_moved
          /\ segments' = pulled.iter.log
          /\ emitted' = Append(emitted, pulled.item[1])
          /\ LET built == from_segments_body(Building, pulled.item[1])
             IN /\ outline' = built.outline
                /\ current_contour' = built.current_contour
                /\ bounding_points' = built.bounding_points
    /\ UNCHANGED <<adapter, events, p_pc>>
    /\ UNCHANGED <<sv_vars, scene_vars, transform_vars, tiler_vars>>

\* the segments run out: the last contour and the bounds
FromSegmentsEnd ==
    /\ p_pc = "segments"
    /\ LET pulled == MonotonicConversionIter_next(mono_buffer, AdapterIter)
       IN /\ pulled.item = None
          /\ ~pulled.iter.panicked
          /\ consumed' = pulled.iter.consumed
          /\ first_subpath_point' = pulled.iter.first_subpath_point
          /\ last_subpath_point' = pulled.iter.last_subpath_point
          /\ just_moved' = pulled.iter.just_moved
          /\ LET built == from_segments_end(Building)
             IN /\ outline' = built.outline
                /\ current_contour' = built.current_contour
                /\ bounding_points' = built.bounding_points
    /\ p_pc' = "done"
    /\ UNCHANGED <<adapter, events, segments, mono_buffer, emitted>>
    /\ UNCHANGED <<sv_vars, scene_vars, transform_vars, tiler_vars>>

PathNext == FromSegmentsSegment \/ FromSegmentsEnd

SpecPath == PathInit /\ [][PathNext]_vars

----------------------------------------------------------------------------
(* C13: whatever the stream of path events, every contour that               *)
(* Outline::from_segments has built starts with an endpoint and has at most  *)
(* two control points between two endpoints that follow each other.          *)

ContourIsWellFormed(contour) ==
    /\ contour.points # <<>>
    /\ contour.flags[1] = PointFlags_empty
    /\ \A i \in DOMAIN contour.flags :
          i + 2 <= Len(contour.flags) =>
             \E j \in i..(i + 2) : contour.flags[j] = PointFlags_empty

C13_ContoursStartAtEndpoint ==
    \A c \in DOMAIN outline.contours : ContourIsWellFormed(outline.contours[c])

----------------------------------------------------------------------------
(* C14: MonotonicConversionIter hands on a line as it came and a cubic with  *)
(* k extrema of y inside the range as k + 1 pieces that lead from the        *)
(* cubic's start to its end, each starting where the one before ended, and   *)
(* the pieces of different segments are not interleaved.                     *)

\* The extrema of y of a cubic inside (EPSILON, 1 - EPSILON): the places
\* where y'(t) / 3 = sum * t^2 - 2 * v0_to_v1 * t + v0 changes sign.
ExtremaCount(segment) ==
    LET v0 == RatSub(segment.ctrl.from.y, segment.baseline.from.y)
        v1 == RatSub(segment.ctrl.to.y, segment.ctrl.from.y)
        v2 == RatSub(segment.baseline.to.y, segment.ctrl.to.y)
        v0_to_v1 == RatSub(v0, v1)
        sum == RatAdd(v0_to_v1, RatSub(v2, v1))
        square == RatSub(RatMul(v1, v1), RatMul(v0, v2))
        Extremum(t) == IF in_range(t) THEN 1 ELSE 0
    IN IF sum = Rat(0)
       THEN IF v0_to_v1 = Rat(0) THEN 0
            ELSE Extremum(RatDiv(v0, RatMul(Rat(2), v0_to_v1)))
       ELSE IF ~RatLess(Rat(0), square) THEN 0
            ELSE Extremum(RatDiv(RatAdd(v0_to_v1, RatSqrt(square)), sum))
                 + Extremum(RatDiv(RatSub(v0_to_v1, RatSqrt(square)), sum))

PiecesOf(i) ==
    LET IsPiece(piece) == piece.origin = i
    IN SelectSeq(emitted, IsPiece)

C14_MonotonicPieces ==
    p_pc = "done" =>
       /\ \A n \in DOMAIN emitted :
             n > 1 => emitted[n - 1].origin <= emitted[n].origin
       /\ \A i \in DOMAIN segments :
             LET segment == segments[i].segment
                 pieces == PiecesOf(i)
             IN IF is_line(segment) THEN pieces = <<segment>>
                ELSE /\ Len(pieces) = ExtremaCount(segment) + 1
                     /\ pieces[1].baseline.from = segment.baseline.from
                     /\ pieces[Len(pieces)].baseline.to = segment.baseline.to
                     /\ \A n \in 2..Len(pieces) :
                           pieces[n].baseline.from = pieces[n - 1].baseline.to

----------------------------------------------------------------------------
(* C15: the segment of a QuadraticTo(p1, p2) issued at p0 is handed to       *)
(* handle_cubic as the cubic with the control points (p0 + 2 * p1) / 3 and   *)
(* (2 * p1 + p2) / 3.                                                        *)

\* what MonotonicConversionIter::next hands to handle_cubic for a segment
\* that is no line
handle_cubic_argument(segment) ==
    CASE segment.kind = "Cubic" -> segment
      [] segment.kind = "Quadratic" -> to_cubic(segment)

DegreeElevated(p0, p1, p2) ==
    LineSegmentF32_new(
        Point2DF32_scale(Point2DF32_add(p0, Point2DF32_add(p1, p1)), <<1, 3>>),
        Point2DF32_scale(Point2DF32_add(Point2DF32_add(p1, p1), p2), <<1, 3>>))

C15_QuadraticIsElevated ==
    \A i \in DOMAIN segments :
        LET event == events[segments[i].event]
            segment == segments[i].segment
        IN event.op = "QuadraticTo" =>
              handle_cubic_argument(segment).ctrl
                 = DegreeElevated(segment.baseline.from, event.ctrl, event.to)

----------------------------------------------------------------------------
(* C16: the adapters return one segment for each event that is no MoveTo,    *)
(* in the order of the events.  The segment of a drawing event leads from    *)
(* the current point to the event's target and has FIRST_IN_SUBPATH exactly  *)
(* when the event before it is a MoveTo; the segment of a Close is a line    *)
(* from the current point to the first point of the subpath with             *)
(* CLOSES_SUBPATH, and the current point after it is that first point.       *)

\* the first point of the subpath and the current point before event n
RECURSIVE FirstPointBefore(_)
FirstPointBefore(n) ==
    IF n = 1 THEN Point2DF32_default
    ELSE IF events[n - 1].op = "MoveTo" THEN events[n - 1].to
    ELSE FirstPointBefore(n - 1)

CurrentPointBefore(n) ==
    IF n = 1 THEN Point2DF32_default
    ELSE IF events[n - 1].op = "Close" THEN FirstPointBefore(n - 1)
    ELSE events[n - 1].to

NonMoveEvents ==
    LET IsNoMove(n) == events[n].op # "MoveTo"
    IN SelectSeq([n \in 1..Len(events) |-> n], IsNoMove)

C16_OneSegmentPerEvent ==
    /\ Len(segments) <= Len(NonMoveEvents)
    /\ p_pc = "done" => Len(segments) = Len(NonMoveEvents)
    /\ \A i \in DOMAIN segments :
          LET n == segments[i].event
              event == events[n]
              segment == segments[i].segment
          IN /\ n = NonMoveEvents[i]
             /\ segment.baseline.from = CurrentPointBefore(n)
             /\ IF event.op = "Close"
                THEN /\ segment.baseline.to = FirstPointBefore(n)
                     /\ segment.kind = "Line"
                     /\ segment.flags = {CLOSES_SUBPATH}
                ELSE /\ segment.baseline.to = event.to
                     /\ CLOSES_SUBPATH \notin segment.flags
                     /\ FIRST_IN_SUBPATH \in segment.flags
                           <=> (n > 1 /\ events[n - 1].op = "MoveTo")

\* a stream MoveTo, drawing event, Close, drawing event has run through: the
\* last segment starts at the MoveTo's target
C16_Witness ==
    /\ p_pc = "done"
    /\ Len(events) = 4
    /\ events[1].op = "MoveTo"
    /\ events[2].op \notin {"MoveTo", "Close"}
    /\ events[3].op = "Close"
    /\ events[4].op \notin {"MoveTo", "Close"}
    /\ Len(segments) = 3
    /\ FIRST_IN_SUBPATH \in segments[1].segment.flags
    /\ FIRST_IN_SUBPATH \notin segments[3].segment.flags
    /\ segments[3].segment.baseline.from = events[1].to

----------------------------------------------------------------------------
(* C20: the bounds of an outline that Outline::from_segments has built and   *)
(* that stores a point are the rectangle from the least x and y to the       *)
(* greatest x and y of all the points of all its contours, control points    *)
(* included.                                                                 *)

StoredPoints ==
    UNION {{outline.contours[c].points[i] : i \in DOMAIN outline.contours[c].points} :
              c \in DOMAIN outline.contours}

Least(values) == CHOOSE v \in values : \A w \in values : ~RatLess(w, v)

Greatest(values) == CHOOSE v \in values : \A w \in values : ~RatLess(v, w)

SpannedRect(points) ==
    LET xs == {point.x : point \in points}
        ys == {point.y : point \in points}
    IN [x |-> Least(xs), y |-> Least(ys),
        w |-> RatSub(Greatest(xs), Least(xs)), h |-> RatSub(Greatest(ys), Least(ys))]

C20_BoundsSpanAllPoints ==
    (p_pc = "done" /\ StoredPoints # {}) => outline.bounds = SpannedRect(StoredPoints)

\* an outline of two contours or more is built and a control point lies on
\* the left edge of its bounds, left of every endpoint
C20_Witness ==
    /\ p_pc = "done"
    /\ Len(outline.contours) >= 2
    /\ \E c \in DOMAIN outline.contours :
          \E i \in DOMAIN outline.contours[c].points :
             /\ outline.contours[c].flags[i] # PointFlags_empty
             /\ outline.contours[c].points[i].x = outline.bounds.x
    /\ \A c \in DOMAIN outline.contours :
          \A i \in DOMAIN outline.contours[c].points :
             outline.contours[c].flags[i] = PointFlags_empty
                => RatLess(outline.bounds.x, outline.contours[c].points[i].x)

----------------------------------------------------------------------------
(* The sweep of the Tiler.  The outlines swept here are made of straight     *)
(* edges parallel to the axes with integral coordinates: a point is [x, y]   *)
(* of integers, f32::floor and f32::ceil are the identity, and the divisions *)
(* of split_at_y and solve_y_for_x are exact.  The arm of ActiveEdge::process *)
(* for curves is not taken by them and is left out.  debug_assert! is        *)
(* compiled out, as in the release build the tool is run in.                 *)

Point(x, y) == [x |-> x, y |-> y]

\* LineSegmentF32 of the geometry crate
min_y(line) == Min2(line.from.y, line.to.y)

max_y(line) == Max2(line.from.y, line.to.y)

y_winding(line) == IF line.from.y < line.to.y THEN 1 ELSE -1

upper_point(line) == IF line.from.y < line.to.y THEN line.from ELSE line.to

solve_y_for_x(line, x) ==
    line.from.y
      + I32_div((line.to.y - line.from.y) * (x - line.from.x), line.to.x - line.from.x)

\* the two parts keep the direction of the line; the upper part comes first
split_at_y_parts(line, point) ==
    IF line.from.y < point.y
    THEN <<LineSegmentF32_new(line.from, point), LineSegmentF32_new(point, line.to)>>
    ELSE <<LineSegmentF32_new(point, line.to), LineSegmentF32_new(line.from, point)>>

split_at_y(line, y) ==
    split_at_y_parts(line,
        Point(line.from.x
                + I32_div((line.to.x - line.from.x) * (y - line.from.y),
                          line.to.y - line.from.y),
              y))

\* Contour, with Rust's point i at position i + 1
Contour_len(contour) == Len(contour.points)

position_of(contour, index) == contour.points[index + 1]

point_is_endpoint(contour, point_index) ==
    contour.flags[point_index + 1] \notin {CONTROL_POINT_0, CONTROL_POINT_1}

add_to_point_index(contour, point_index, addend) ==
    IF point_index + addend >= Contour_len(contour)
    THEN point_index + addend - Contour_len(contour)
    ELSE point_index + addend

point_is_logically_above(contour, a, b) ==
    \/ position_of(contour, a).y < position_of(contour, b).y
    \/ (position_of(contour, a).y = position_of(contour, b).y /\ a < b)

prev_point_index_of(contour, point_index) ==
    IF point_index = 0 THEN Contour_len(contour) - 1 ELSE point_index - 1

next_point_index_of(contour, point_index) ==
    IF point_index = Contour_len(contour) - 1 THEN 0 ELSE point_index + 1

RECURSIVE prev_endpoint_index_of(_, _)
prev_endpoint_index_of(contour, point_index) ==
    IF point_is_endpoint(contour, prev_point_index_of(contour, point_index))
    THEN prev_point_index_of(contour, point_index)
    ELSE prev_endpoint_index_of(contour, prev_point_index_of(contour, point_index))

RECURSIVE next_endpoint_index_of(_, _)
next_endpoint_index_of(contour, point_index) ==
    IF point_is_endpoint(contour, next_point_index_of(contour, point_index))
    THEN next_point_index_of(contour, point_index)
    ELSE next_endpoint_index_of(contour, next_point_index_of(contour, point_index))

\* Contour::segment_after
segment_after(contour, point_index) ==
    LET from == position_of(contour, point_index)
        point1 == add_to_point_index(contour, point_index, 1)
        point2 == add_to_point_index(contour, point_index, 2)
        point3 == add_to_point_index(contour, point_index, 3)
    IN IF point_is_endpoint(contour, point1)
       THEN Segment_line(LineSegmentF32_new(from, position_of(contour, point1)))
       ELSE IF point_is_endpoint(contour, point2)
       THEN [Segment_none EXCEPT
               !.baseline = LineSegmentF32_new(from, position_of(contour, point2)),
               !.ctrl.from = position_of(contour, point1),
               !.kind = "Quadratic"]
       ELSE Segment_cubic(LineSegmentF32_new(from, position_of(contour, point3)),
                          LineSegmentF32_new(position_of(contour, point1),
                                             position_of(contour, point2)))

\* QueuedEndpoint and its order, which is reversed; a PointIndex is ordered
\* by contour, then point
QueuedEndpoint(contour_index, point, y) ==
    [point_index |-> [contour |-> contour_index, point |-> point], y |-> y]

PointIndex_le(a, b) ==
    a.contour < b.contour \/ (a.contour = b.contour /\ a.point <= b.point)

\* an order of QueuedEndpoint that is not reversed
QueuedEndpoint_le_not_reversed(a, b) ==
    a.y < b.y \/ (a.y = b.y /\ (a.point_index.contour < b.point_index.contour
                                  \/ (a.point_index.contour = b.point_index.contour
                                        /\ a.point_index.point <= b.point_index.point)))

QueuedEndpoint_le(a, b) ==
    b.y < a.y \/ (b.y = a.y /\ PointIndex_le(b.point_index, a.point_index))

\* SortedVector<QueuedEndpoint>::push
RECURSIVE point_queue_push_loop(_, _)
point_queue_push_loop(array, index) ==
    IF index > 0
    THEN IF QueuedEndpoint_le(array[index], array[index + 1])
         THEN array
         ELSE point_queue_push_loop(Swap(array, index, index + 1), index - 1)
    ELSE array

point_queue_push(array, value) == point_queue_push_loop(Append(array, value), Len(array))

\* ActiveEdge and its order, by crossing.x
ActiveEdge_from_segment(segment) ==
    [segment |-> segment,
     crossing |-> IF segment.baseline.from.y < segment.baseline.to.y
                  THEN segment.baseline.from ELSE segment.baseline.to]

\* an order of ActiveEdge in which every edge is before every other
ActiveEdge_le_always(a, b) == TRUE

ActiveEdge_le(a, b) == a.crossing.x <= b.crossing.x

\* SortedVector<ActiveEdge>::push
RECURSIVE active_edges_push_loop(_, _)
active_edges_push_loop(array, index) ==
    IF index > 0
    THEN IF ActiveEdge_le(array[index], array[index + 1])
         THEN array
         ELSE active_edges_push_loop(Swap(array, index, index + 1), index - 1)
    ELSE array

active_edges_push(array, value) == active_edges_push_loop(Append(array, value), Len(array))

\* The Tiler while it sweeps: [object, point_queue, active_edges, panicked].
\* `panicked` is set by an index past the end of the object's tiles: the
\* assertion of FixedBitSet::set and the bounds check of Vec's index.  The
\* object, the strips and the log of a panicked Tiler stay as they were at
\* the panic; what else it goes on to compute is never looked at.  `strips`
\* and `log` are history only.

\* the log of a sweep: the endpoints popped, the endpoints add_new_active_edge
\* enqueued, the segments made active edges, the old active edges visited,
\* the calls of get_tile_mut and the edges pushed into active_edges, each in
\* the order they happened
EmptyLog ==
    [popped |-> <<>>, enqueued |-> <<>>, activated |-> <<>>, visits |-> <<>>,
     backdrops |-> <<>>, pushed |-> <<>>, active_fills |-> <<>>,
     lines |-> <<>>]

logged(tiler, field, entry) ==
    IF tiler.panicked THEN tiler
    ELSE [tiler EXCEPT !.log[field] = Append(@, entry)]

\* add_fill pushes the fill, then FixedBitSet::set asserts the index
add_fill_checked(tiler, segment, tile_x, tile_y) ==
    IF tiler.panicked THEN tiler
    ELSE IF tile_coords_to_index(tiler.object, tile_x, tile_y) < Len(tiler.object.solid_tiles)
    THEN [tiler EXCEPT !.object = add_fill(@, segment, tile_x, tile_y)]
    ELSE [tiler EXCEPT
            !.object.fills = Append(@, [px |-> segment, tile_x |-> tile_x,
                                        tile_y |-> tile_y]),
            !.panicked = TRUE]

set_backdrop_checked(tiler, winding, tile_x, tile_y) ==
    IF tiler.panicked THEN tiler
    ELSE IF tile_coords_to_index(tiler.object, tile_x, tile_y) < Len(tiler.object.tiles)
    THEN [tiler EXCEPT !.object = set_backdrop(@, winding, tile_x, tile_y)]
    ELSE [tiler EXCEPT !.panicked = TRUE]

\* BuiltObject::add_active_fill: add_fill once for each unit of the winding
RECURSIVE add_active_fill_loop(_, _, _, _, _)
add_active_fill_loop(tiler, segment, winding, tile_x, tile_y) ==
    IF winding = 0 THEN tiler
    ELSE add_active_fill_loop(add_fill_checked(tiler, segment, tile_x, tile_y), segment,
                              IF winding < 0 THEN winding + 1 ELSE winding - 1,
                              tile_x, tile_y)

\* the call that took `tiler` to `after`, put in the log with the number of
\* fills and the solid bits on both sides of it; a call that panicked is in
\* the log too, with `returned` FALSE
call_logged(tiler, after, field, call) ==
    IF tiler.panicked THEN tiler
    ELSE [after EXCEPT
            !.log[field] =
                Append(@, [call |-> call,
                           fills_before |-> Len(tiler.object.fills),
                           fills_after |-> Len(after.object.fills),
                           solid_before |-> tiler.object.solid_tiles,
                           solid_after |-> after.object.solid_tiles,
                           returned |-> ~after.panicked])]

add_active_fill(tiler, left, right, winding, tile_x, tile_y) ==
    call_logged(
        tiler,
        add_active_fill_loop(
            tiler,
            IF winding < 0
            THEN LineSegmentF32_new(Point(left, tile_y * TILE_HEIGHT),
                                    Point(right, tile_y * TILE_HEIGHT))
            ELSE LineSegmentF32_new(Point(right, tile_y * TILE_HEIGHT),
                                    Point(left, tile_y * TILE_HEIGHT)),
            winding, tile_x, tile_y),
        "active_fills",
        [left |-> left, right |-> right, winding |-> winding,
         tile_x |-> tile_x, tile_y |-> tile_y])

\* the loop of BuiltObject::generate_fill_primitives_for_line over the tile
\* columns; `cut` is whether the column's right side is left of segment_right
RECURSIVE generate_fill_primitives_loop(_, _, _, _, _, _, _)
generate_fill_primitives_cut(tiler, segment, winding, segment_right, subsegment_tile_x,
                             segment_tile_right, tile_y, point) ==
    generate_fill_primitives_loop(
        add_fill_checked(tiler,
                         IF ~winding THEN LineSegmentF32_new(segment.from, point)
                         ELSE LineSegmentF32_new(point, segment.to),
                         subsegment_tile_x, tile_y),
        IF ~winding THEN LineSegmentF32_new(point, segment.to)
        ELSE LineSegmentF32_new(segment.from, point),
        winding, segment_right, subsegment_tile_x + 1, segment_tile_right, tile_y)

generate_fill_primitives_loop(tiler, segment, winding, segment_right, subsegment_tile_x,
                              segment_tile_right, tile_y) ==
    IF subsegment_tile_x >= segment_tile_right THEN tiler
    ELSE IF (subsegment_tile_x + 1) * TILE_HEIGHT < segment_right
    THEN generate_fill_primitives_cut(
             tiler, segment, winding, segment_right, subsegment_tile_x,
             segment_tile_right, tile_y,
             Point((subsegment_tile_x + 1) * TILE_HEIGHT,
                   solve_y_for_x(segment, (subsegment_tile_x + 1) * TILE_HEIGHT)))
    ELSE generate_fill_primitives_loop(
             add_fill_checked(tiler, LineSegmentF32_new(segment.from, segment.to),
                              subsegment_tile_x, tile_y),
             segment, winding, segment_right, subsegment_tile_x + 1,
             segment_tile_right, tile_y)

generate_fill_primitives_for_line(tiler, segment, tile_y) ==
    call_logged(
        tiler,
        generate_fill_primitives_loop(
            tiler, segment, segment.from.x > segment.to.x,
            Max2(segment.from.x, segment.to.x),
            I32_div(Min2(segment.from.x, segment.to.x), TILE_WIDTH),
            alignup_i32(Max2(segment.from.x, segment.to.x), TILE_WIDTH),
            tile_y),
        "lines",
        [segment |-> segment, tile_y |-> tile_y])

\* a split that leaves the crossing where it was
process_line_segment_split_keeps_crossing(tiler, edge, parts, tile_y) ==
    [tiler |-> generate_fill_primitives_for_line(tiler, parts[1], tile_y),
     edge |-> edge,
     lower_part |-> Some(parts[2])]

\* ActiveEdge::process_line_segment: the tiler after it, the edge with its
\* crossing, and the part of the line below the strip, if any
process_line_segment_split(tiler, edge, parts, tile_y) ==
    [tiler |-> generate_fill_primitives_for_line(tiler, parts[1], tile_y),
     edge |-> [edge EXCEPT !.crossing = upper_point(parts[2])],
     lower_part |-> Some(parts[2])]

process_line_segment(tiler, edge, line_segment, tile_y) ==
    IF max_y(line_segment) <= (tile_y + 1) * TILE_HEIGHT
    THEN [tiler |-> generate_fill_primitives_for_line(tiler, line_segment, tile_y),
          edge |-> edge, lower_part |-> None]
    ELSE process_line_segment_split(tiler, edge,
                                    split_at_y(line_segment, (tile_y + 1) * TILE_HEIGHT),
                                    tile_y)

\* ActiveEdge::process for an edge that is a line
ActiveEdge_process_line(processed) ==
    [tiler |-> processed.tiler,
     edge |-> [processed.edge EXCEPT
                 !.segment = IF processed.lower_part # None
                             THEN Segment_line(processed.lower_part[1])
                             ELSE Segment_none]]

ActiveEdge_process(tiler, edge, tile_y) ==
    ActiveEdge_process_line(process_line_segment(tiler, edge, edge.segment.baseline, tile_y))

\* `if !active_edge.segment.is_none() { active_edges.push(active_edge) }`
push_if_not_none(processed) ==
    IF is_none(processed.edge.segment) THEN processed.tiler
    ELSE logged([processed.tiler EXCEPT
                   !.active_edges = active_edges_push(@, processed.edge)],
                "pushed", processed.edge)

process_active_segment(tiler, contour, from_endpoint_index, tile_y) ==
    push_if_not_none(
        ActiveEdge_process(tiler,
                           ActiveEdge_from_segment(segment_after(contour, from_endpoint_index)),
                           tile_y))

\* the two arms of Tiler::add_new_active_edge
add_edge_to(tiler, contour, point_index, from_endpoint_index, to_endpoint_index, tile_y) ==
    logged(
        [process_active_segment(
             logged(tiler, "activated",
                    [contour |-> point_index.contour, from |-> from_endpoint_index,
                     upper |-> point_index.point, tile_y |-> tile_y]),
             contour, from_endpoint_index, tile_y)
         EXCEPT
           !.point_queue = point_queue_push(@, QueuedEndpoint(point_index.contour,
                                                to_endpoint_index,
                                                position_of(contour, to_endpoint_index).y))],
        "enqueued",
        [endpoint |-> QueuedEndpoint(point_index.contour, to_endpoint_index,
                                     position_of(contour, to_endpoint_index).y),
         popped |-> Len(tiler.log.popped)])

add_new_active_edge_next(tiler, contour, point_index, next_endpoint_index, tile_y) ==
    IF point_is_logically_above(contour, point_index.point, next_endpoint_index)
    THEN add_edge_to(tiler, contour, point_index, point_index.point,
                     next_endpoint_index, tile_y)
    ELSE tiler

add_new_active_edge_prev(tiler, contour, point_index, prev_endpoint_index, tile_y) ==
    IF point_is_logically_above(contour, point_index.point, prev_endpoint_index)
    THEN add_edge_to(tiler, contour, point_index, prev_endpoint_index,
                     prev_endpoint_index, tile_y)
    ELSE tiler

add_new_active_edge_at(tiler, contour, point_index, tile_y) ==
    add_new_active_edge_next(
        add_new_active_edge_prev(tiler, contour, point_index,
                                 prev_endpoint_index_of(contour, point_index.point), tile_y),
        contour, point_index,
        next_endpoint_index_of(contour, point_index.point), tile_y)

add_new_active_edge(tiler, contours, tile_y) ==
    add_new_active_edge_at(
        logged([tiler EXCEPT !.point_queue = SortedVector_pop(@)], "popped",
               [endpoint |-> SortedVector_peek(tiler.point_queue),
                rest |-> SortedVector_pop(tiler.point_queue), tile_y |-> tile_y]),
        contours[SortedVector_peek(tiler.point_queue).point_index.contour + 1],
        SortedVector_peek(tiler.point_queue).point_index,
        tile_y)

\* Tiler::process_old_active_edges.  The locals of the loop are
\* [tiler, current_tile_x, current_subtile_x, current_winding]; `processed`
\* is history only, the number of old active edges the loop has gone through.

\* "Do initial subtile fill, if necessary."
initial_subtile_fill(locals, segment_tile_x, tile_y) ==
    IF locals.current_tile_x < segment_tile_x /\ locals.current_subtile_x > 0
    THEN [locals EXCEPT
            !.tiler = add_active_fill(@,
                          locals.current_tile_x * TILE_WIDTH + locals.current_subtile_x,
                          (locals.current_tile_x + 1) * TILE_WIDTH,
                          locals.current_winding, locals.current_tile_x, tile_y),
            !.current_tile_x = @ + 1,
            !.current_subtile_x = 0]
    ELSE locals

\* "Move over to the correct tile, filling in as we go."
RECURSIVE move_over(_, _, _)
move_over(locals, segment_tile_x, tile_y) ==
    IF locals.current_tile_x < segment_tile_x
    THEN move_over([locals EXCEPT
                      !.tiler = set_backdrop_checked(
                                    logged(@, "backdrops",
                                           [tile_x |-> locals.current_tile_x,
                                            tile_y |-> tile_y,
                                            winding |-> locals.current_winding,
                                            processed |-> locals.processed]),
                                    locals.current_winding,
                                    locals.current_tile_x, tile_y),
                      !.current_tile_x = @ + 1,
                      !.current_subtile_x = 0],
                   segment_tile_x, tile_y)
    ELSE locals

\* "Do final subtile fill, if necessary."
final_subtile_fill(locals, segment_x, tile_y) ==
    IF segment_x - locals.current_tile_x * TILE_WIDTH > locals.current_subtile_x
    THEN [locals EXCEPT
            !.tiler = add_active_fill(@,
                          locals.current_tile_x * TILE_WIDTH + locals.current_subtile_x,
                          segment_x, locals.current_winding, locals.current_tile_x, tile_y),
            !.current_subtile_x = segment_x - locals.current_tile_x * TILE_WIDTH]
    ELSE locals

\* "Update winding." and "Process the edge."
update_winding_and_process(locals, active_edge, tile_y) ==
    [locals EXCEPT
       !.current_winding =
           @ + (IF active_edge.segment.baseline.from.y < active_edge.segment.baseline.to.y
                THEN 1 ELSE -1),
       !.processed = @ + 1,
       !.tiler = push_if_not_none(
                     ActiveEdge_process(
                         logged(@, "visits",
                                [tile_y |-> tile_y, active_edge |-> active_edge,
                                 current_tile_x |-> locals.current_tile_x]),
                         active_edge, tile_y))]

\* the body of the loop for one old active edge
old_active_edge(locals, active_edge, tile_y) ==
    update_winding_and_process(
        final_subtile_fill(
            move_over(
                initial_subtile_fill(locals, I32_div(active_edge.crossing.x, TILE_WIDTH),
                                     tile_y),
                I32_div(active_edge.crossing.x, TILE_WIDTH), tile_y),
            active_edge.crossing.x, tile_y),
        active_edge, tile_y)

RECURSIVE old_active_edges_from(_, _, _, _)
old_active_edges_from(locals, old_active_edges, i, tile_y) ==
    IF i > Len(old_active_edges) THEN locals
    ELSE old_active_edges_from(old_active_edge(locals, old_active_edges[i], tile_y),
                               old_active_edges, i + 1, tile_y)

\* the tiler after the loop; `strips` is history only: for each strip, the
\* current_winding the loop ended with and the old active edges it went over
strip_processed(locals, old_active_edges, tile_y) ==
    IF locals.tiler.panicked THEN locals.tiler
    ELSE
    [locals.tiler EXCEPT
       !.strips = Append(@, [tile_y |-> tile_y,
                             current_winding |-> locals.current_winding,
                             old_active_edges |-> old_active_edges,
                             log_popped |-> Len(locals.tiler.log.popped)])]

process_old_active_edges(tiler, tile_y) ==
    strip_processed(
        old_active_edges_from(
            [tiler |-> [tiler EXCEPT !.active_edges = <<>>],
             current_tile_x |-> tiler.object.tile_rect.x,
             current_subtile_x |-> 0,
             current_winding |-> 0,
             processed |-> 0],
            tiler.active_edges, 1, tile_y),
        tiler.active_edges, tile_y)

\* Tiler::generate_strip
RECURSIVE add_new_active_edges(_, _, _)
add_new_active_edges(tiler, contours, strip_origin_y) ==
    IF SortedVector_is_empty(tiler.point_queue) THEN tiler
    ELSE IF SortedVector_peek(tiler.point_queue).y >= (strip_origin_y + 1) * TILE_HEIGHT
    THEN tiler
    ELSE add_new_active_edges(add_new_active_edge(tiler, contours, strip_origin_y),
                              contours, strip_origin_y)

generate_strip(tiler, contours, strip_origin_y) ==
    add_new_active_edges(process_old_active_edges(tiler, strip_origin_y),
                         contours, strip_origin_y)

\* Tiler::init_point_queue: the loop over the endpoints of one contour
RECURSIVE init_point_queue_loop(_, _, _, _, _, _)
init_point_queue_loop(point_queue, contour, contour_index, prev_endpoint_index,
                      cur_endpoint_index, next_endpoint_index) ==
    LET pushed ==
            IF /\ point_is_logically_above(contour, cur_endpoint_index, prev_endpoint_index)
               /\ point_is_logically_above(contour, cur_endpoint_index, next_endpoint_index)
            THEN point_queue_push(point_queue,
                     QueuedEndpoint(contour_index, cur_endpoint_index,
                                    position_of(contour, cur_endpoint_index).y))
            ELSE point_queue
    IN IF cur_endpoint_index >= next_endpoint_index THEN pushed
       ELSE init_point_queue_loop(pushed, contour, contour_index, cur_endpoint_index,
                                  next_endpoint_index,
                                  next_endpoint_index_of(contour, next_endpoint_index))

RECURSIVE init_point_queue_from(_, _, _)
init_point_queue_from(point_queue, contours, contour_index) ==
    IF contour_index >= Len(contours) THEN point_queue
    ELSE init_point_queue_from(
             init_point_queue_loop(point_queue, contours[contour_index + 1], contour_index,
                                   prev_endpoint_index_of(contours[contour_index + 1], 0),
                                   0,
                                   next_endpoint_index_of(contours[contour_index + 1], 0)),
             contours, contour_index + 1)

init_point_queue(contours) == init_point_queue_from(<<>>, contours, 0)

\* The scenes swept.  An outline is given as Outline::from_segments builds
\* it from Move, Line, .., Close: one contour of the corners in the order
\* they were drawn, all endpoints, the closing edge not stored; its bounds
\* span the corners.
PolygonOutline(points, bounds) ==
    [contours |-> <<[points |-> points,
                     flags |-> [i \in DOMAIN points |-> PointFlags_empty]]>>,
     bounds |-> bounds]

SquareOutline(x0, y0, x1, y1) ==
    PolygonOutline(<<Point(x0, y0), Point(x1, y0), Point(x1, y1), Point(x0, y1)>>,
                   [x |-> x0, y |-> y0, w |-> x1 - x0, h |-> y1 - y0])

\* an L: the square [0,32) x [0,32) without its lower right quarter
LOutline ==
    PolygonOutline(<<Point(0, 0), Point(32, 0), Point(32, 16), Point(16, 16),
                     Point(16, 32), Point(0, 32)>>,
                   [x |-> 0, y |-> 0, w |-> 32, h |-> 32])

\* Move(0,0) Line(100,0) Line(100,100) Line(0,100) Close in the view box
\* (0,0,64,64)
SceneRectangle ==
    [view_box |-> [x |-> 0, y |-> 0, w |-> 64, h |-> 64],
     outlines |-> <<SquareOutline(0, 0, 100, 100)>>]

\* the squares [0,32) x [0,32) and, on top, [16,48) x [16,48)
SceneTwoSquares ==
    [view_box |-> [x |-> 0, y |-> 0, w |-> 64, h |-> 64],
     outlines |-> <<SquareOutline(0, 0, 32, 32), SquareOutline(16, 16, 48, 48)>>]

SceneL ==
    [view_box |-> [x |-> 0, y |-> 0, w |-> 32, h |-> 32],
     outlines |-> <<LOutline>>]

\* a square whose edges are on no tile boundary, alone and on top of the L
SceneInset ==
    [view_box |-> [x |-> 0, y |-> 0, w |-> 32, h |-> 32],
     outlines |-> <<SquareOutline(4, 4, 28, 28)>>]

SceneInsetOnL ==
    [view_box |-> [x |-> 0, y |-> 0, w |-> 32, h |-> 32],
     outlines |-> <<LOutline, SquareOutline(4, 4, 28, 28)>>]

\* a rectangle that begins above the view box, and a square that begins
\* above and left of it
SceneAbove ==
    [view_box |-> [x |-> 16, y |-> 16, w |-> 32, h |-> 32],
     outlines |-> <<SquareOutline(16, 0, 48, 48)>>]

SceneAboveLeft ==
    [view_box |-> [x |-> 16, y |-> 16, w |-> 32, h |-> 32],
     outlines |-> <<SquareOutline(0, 0, 48, 48)>>]

\* Move(0,0) Line(48,48) Line(48,0) Line(0,48) Close: the two diagonals
\* cross in the middle of the second strip
BowTieOutline ==
    PolygonOutline(<<Point(0, 0), Point(48, 48), Point(48, 0), Point(0, 48)>>,
                   [x |-> 0, y |-> 0, w |-> 48, h |-> 48])

SceneBowTie ==
    [view_box |-> [x |-> 0, y |-> 0, w |-> 64, h |-> 64],
     outlines |-> <<BowTieOutline>>]

\* the inset square drawn from its upper right corner downwards, under the
\* bow tie
SceneReversed ==
    [view_box |-> [x |-> 0, y |-> 0, w |-> 64, h |-> 64],
     outlines |-> <<PolygonOutline(<<Point(40, 4), Point(40, 40), Point(4, 40),
                                     Point(4, 4)>>,
                                   [x |-> 4, y |-> 4, w |-> 36, h |-> 36]),
                    BowTieOutline>>]

\* an outline of two contours: the square [4,44) x [4,44) and, drawn the
\* other way round, the hole [12,36) x [20,36) in it
SceneFrame ==
    [view_box |-> [x |-> 0, y |-> 0, w |-> 48, h |-> 48],
     outlines |-> <<[contours |-> SquareOutline(4, 4, 44, 44).contours
                                    \o PolygonOutline(<<Point(12, 20), Point(12, 36),
                                                        Point(36, 36), Point(36, 20)>>,
                                                      Rect_zero).contours,
                     bounds |-> [x |-> 4, y |-> 4, w |-> 40, h |-> 40]]>>]

\* an outline of two contours drawn against the clock, the square
\* [4,44) x [4,44) and the rectangle [12,36) x [20,36) in it, so that the
\* winding is 1 and, inside the rectangle, 2; on top of it the inset square
SceneNested ==
    [view_box |-> [x |-> 0, y |-> 0, w |-> 48, h |-> 48],
     outlines |-> <<[contours |-> PolygonOutline(<<Point(4, 4), Point(4, 44),
                                                   Point(44, 44), Point(44, 4)>>,
                                                 Rect_zero).contours
                                    \o PolygonOutline(<<Point(12, 20), Point(12, 36),
                                                        Point(36, 36), Point(36, 20)>>,
                                                      Rect_zero).contours,
                     bounds |-> [x |-> 4, y |-> 4, w |-> 40, h |-> 40]],
                    SquareOutline(4, 4, 28, 28)>>]

\* an outline of two contours drawn against the clock in the view box
\* (0,0,64,64), the square [4,70) x [4,70) and the rectangle
\* [12,75) x [12,60): their right edges are right of the view box, inside
\* a tile, with the winding 2 and 1 to their left
SceneWide ==
    [view_box |-> [x |-> 0, y |-> 0, w |-> 64, h |-> 64],
     outlines |-> <<[contours |-> PolygonOutline(<<Point(4, 4), Point(4, 70),
                                                   Point(70, 70), Point(70, 4)>>,
                                                 Rect_zero).contours
                                    \o PolygonOutline(<<Point(12, 12), Point(12, 60),
                                                        Point(75, 60), Point(75, 12)>>,
                                                      Rect_zero).contours,
                     bounds |-> [x |-> 4, y |-> 4, w |-> 71, h |-> 66]]>>]

\* a square that begins left of the view box, at its top
SceneLeft ==
    [view_box |-> [x |-> 16, y |-> 16, w |-> 32, h |-> 32],
     outlines |-> <<SquareOutline(0, 16, 48, 48)>>]

\* a rectangle that ends below the view box
SceneBelow ==
    [view_box |-> [x |-> 0, y |-> 0, w |-> 32, h |-> 32],
     outlines |-> <<SquareOutline(4, 4, 28, 60)>>]

TilerScenes ==
    {SceneRectangle, SceneTwoSquares, SceneL, SceneInset, SceneInsetOnL,
     SceneAbove, SceneAboveLeft, SceneBowTie, SceneReversed, SceneFrame,
     SceneNested, SceneWide, SceneLeft, SceneBelow}

TilerInit ==
    /\ SvIdle
    /\ PathIdle
    /\ TransformIdle
    /\ \E scene \in TilerScenes :
          /\ view_box = scene.view_box
          /\ outlines = scene.outlines
    /\ position = [k \in DOMAIN outlines |-> k - 1]
    /\ runs = [k \in DOMAIN outlines |-> [bounds |-> outlines[k].bounds, trace |-> <<>>]]
    /\ objects = [k \in Slots |-> Tiler_new(k)]
    /\ tilers = [k \in Slots |-> [point_queue |-> <<>>, active_edges |-> <<>>,
                                   strip_origin_y |-> 0, strips |-> <<>>,
                                   log |-> EmptyLog]]
    /\ w_pc = [k \in Slots |-> "start"]
    /\ w_tile = [k \in Slots |-> 0]
    /\ w_old = [k \in Slots |-> 0]
    /\ completed = <<>>
    /\ zbuf = ZBuffer_new
    /\ m_pc = "build_objects"
    /\ built_objects = <<>>
    /\ current_object_index = 0
    /\ solid_tiles = <<>>
    /\ batches = <<>>

\* Tiler::new and generate_tiles up to the loop over the strips
TilerStart(k) ==
    /\ m_pc = "build_objects"
    /\ w_pc[k] = "start"
    /\ objects' = [objects EXCEPT ![k] = Tiler_new(k)]
    /\ tilers' = [tilers EXCEPT
                    ![k] = [point_queue |-> init_point_queue(outlines[k].contours),
                            active_edges |-> <<>>,
                            strip_origin_y |-> Tiler_new(k).tile_rect.y,
                            strips |-> <<>>,
                            log |-> EmptyLog]]
    /\ IF Tiler_new(k).tile_rect.h > 0
       THEN /\ w_pc' = [w_pc EXCEPT ![k] = "strips"]
            /\ UNCHANGED <<w_tile, completed>>
       ELSE Advance(k, 0)
    /\ UNCHANGED <<position, runs, w_old, zbuf, m_pc, built_objects,
                   current_object_index, solid_tiles, batches, sv_vars,
                   path_vars, transform_vars, view_box, outlines>>

\* the Tiler of worker k as the sweep takes it
TilerOf(k) ==
    [object |-> objects[k],
     point_queue |-> tilers[k].point_queue,
     active_edges |-> tilers[k].active_edges,
     strips |-> tilers[k].strips,
     log |-> tilers[k].log,
     panicked |-> FALSE]

\* one turn of the loop of generate_tiles: generate_strip; after the last
\* strip the worker goes on to cull; a panic ends the worker
StripGenerated(k, tiler) ==
    /\ objects' = [objects EXCEPT ![k] = tiler.object]
    /\ tilers' = [tilers EXCEPT
                    ![k] = [point_queue |-> tiler.point_queue,
                            active_edges |-> tiler.active_edges,
                            strip_origin_y |-> tilers[k].strip_origin_y + 1,
                            strips |-> tiler.strips,
                            log |-> tiler.log]]
    /\ IF tiler.panicked
       THEN /\ w_pc' = [w_pc EXCEPT ![k] = "panicked"]
            /\ UNCHANGED <<w_tile, completed>>
       ELSE IF tilers[k].strip_origin_y + 1 < Rect_max_y(objects[k].tile_rect)
       THEN UNCHANGED <<w_pc, w_tile, completed>>
       ELSE Advance(k, 0)

GenerateStrip(k) ==
    /\ w_pc[k] = "strips"
    /\ StripGenerated(k, generate_strip(TilerOf(k), outlines[k].contours,
                                        tilers[k].strip_origin_y))
    /\ UNCHANGED <<position, runs, w_old, zbuf, m_pc, built_objects,
                   current_object_index, solid_tiles, batches, sv_vars,
                   path_vars, transform_vars, view_box, outlines>>

TilerNext ==
    \/ \E k \in Slots : TilerStart(k)
    \/ \E k \in Slots : GenerateStrip(k)
    \/ \E k \in Slots : UpdateLoad(k)
    \/ \E k \in Slots : UpdateCas(k)
    \/ Join
    \/ BuildSolidTiles
    \/ BuildBatch

SpecTiler == TilerInit /\ [][TilerNext]_vars

----------------------------------------------------------------------------
(* C12: in every strip of every outline, process_old_active_edges ends with  *)
(* current_winding 0: the windings of the active edges that cross the top    *)
(* of the strip cancel.                                                      *)

C12_WindingsCancel ==
    \A k \in DOMAIN tilers :
        \A n \in DOMAIN tilers[k].strips : tilers[k].strips[n].current_winding = 0

----------------------------------------------------------------------------
(* C18: the scene of the one path Move(0,0) Line(100,0) Line(100,100)        *)
(* Line(0,100) Close in the view box (0,0,64,64) is tiled and assembled, and *)
(* the built scene has no batch and 16 solid tiles, each of shader 0.        *)

IsScene(scene) == view_box = scene.view_box /\ outlines = scene.outlines

C18_RectangleIsSolid ==
    IsScene(SceneRectangle) =>
       /\ \A k \in Slots : w_pc[k] # "panicked"
       /\ m_pc = "done" =>
             /\ batches = <<>>
             /\ Len(solid_tiles) = 16
             /\ \A i \in DOMAIN solid_tiles : solid_tiles[i].shader = 0

----------------------------------------------------------------------------
(* C19: in the scene of the squares [0,32) x [0,32) and, above it,           *)
(* [16,48) x [16,48), once both are tiled the Z-buffer cell of tile (1,1)    *)
(* holds 2, the depth of object 1, and no batch has object 0's tile (1,1)    *)
(* among its mask tiles.                                                     *)

C19_UpperSquareOwnsTile ==
    IsScene(SceneTwoSquares) =>
       /\ \A k \in Slots : w_pc[k] # "panicked"
       /\ m_pc \in {"build_solid_tiles", "build_batch", "done"} =>
             zbuf[scene_tile_index(1, 1, SceneTileRect)] = 2
       /\ \A b \in DOMAIN batches :
             \A m \in DOMAIN batches[b].mask_tiles :
                ~ /\ batches[b].mask_tiles[m].object = 0
                  /\ batches[b].mask_tiles[m].tile.tile_x = 1
                  /\ batches[b].mask_tiles[m].tile.tile_y = 1

----------------------------------------------------------------------------
(* Streams with arcs.  PathEventsToSegments is the adapter of lyon's path    *)
(* events, the only one that can be handed an Arc.                           *)

\* the panic of PathEventsToSegments::next unwinds through
\* MonotonicConversionIter::next and Outline::from_segments: the loop is over
FromSegmentsPanic ==
    /\ p_pc = "segments"
    /\ LET pulled == MonotonicConversionIter_next(mono_buffer, AdapterIter)
       IN /\ pulled.iter.panicked
          /\ consumed' = pulled.iter.consumed
          /\ first_subpath_point' = pulled.iter.first_subpath_point
          /\ last_subpath_point' = pulled.iter.last_subpath_point
          /\ just_moved' = pulled.iter.just_moved
    /\ p_pc' = "panicked"
    /\ UNCHANGED <<adapter, events, segments, mono_buffer, emitted, outline,
                   current_contour, bounding_points>>
    /\ UNCHANGED <<sv_vars, scene_vars, transform_vars, tiler_vars>>

MaxArcEvents == 3

ArcEvents ==
    {[op |-> "MoveTo", to |-> Pt(0, 3)],
     [op |-> "LineTo", to |-> Pt(8, 1)],
     [op |-> "CubicTo", ctrl0 |-> Pt(2, 2), ctrl1 |-> Pt(6, 2), to |-> Pt(8, 3)],
     [op |-> "Close"],
     [op |-> "Arc"]}

ArcInit ==
    /\ SvIdle
    /\ SceneIdle
    /\ TransformIdle
    /\ TilerIdle
    /\ adapter = "events"
    /\ \E n \in 0..MaxArcEvents : events \in [1..n -> ArcEvents]
    /\ consumed = 0
    /\ first_subpath_point = Point2DF32_default
    /\ last_subpath_point = Point2DF32_default
    /\ just_moved = FALSE
    /\ segments = <<>>
    /\ mono_buffer = <<>>
    /\ emitted = <<>>
    /\ outline = Outline_new
    /\ current_contour = Contour_new
    /\ bounding_points = None
    /\ p_pc = "segments"

ArcNext == FromSegmentsSegment \/ FromSegmentsEnd \/ FromSegmentsPanic

SpecArc == ArcInit /\ [][ArcNext]_vars

----------------------------------------------------------------------------
(* C21: an Arc event that PathEventsToSegments takes from its iterator ends  *)
(* the run in a panic: no segment is returned for it, no event after it is   *)
(* taken, and the adapter does not come to the end of the stream.            *)

C21_ArcIsFatal ==
    \A i \in 1..consumed :
        events[i].op = "Arc" =>
           /\ p_pc = "panicked"
           /\ i = consumed
           /\ \A s \in DOMAIN segments : segments[s].event # i
           /\ Len(segments) = Cardinality({j \in 1..(i - 1) : events[j].op # "MoveTo"})

\* an Arc was taken after a segment had been returned, with events behind it
C21_Witness ==
    /\ p_pc = "panicked"
    /\ events[consumed].op = "Arc"
    /\ segments # <<>>
    /\ consumed < Len(events)

----------------------------------------------------------------------------
(* C22: the four coordinates of every fill that add_fill stores, taken       *)
(* relative to the fill's tile and scaled by 256, are in 0 .. 0x0FFF.        *)

\* 0x0fff of `Sse41::min_epi32(segment, Sse41::set1_epi32(0x0fff))`
FIXED_POINT_MAX == 4095

\* the lanes of `segment` in add_fill before the bytes are shuffled into px
\* and subpx, from the lanes of cvtps_epi32(mul_ps(segment, 256)): less the
\* tile's origin * 256, then the minimum with 0x0fff; the maximum with 0 is
\* commented out
sub_tile_origin_max_min(scaled, tile_x, tile_y) ==
    <<Max2(0, Min2(scaled[1] - tile_x * TILE_WIDTH * 256, FIXED_POINT_MAX)),
      Max2(0, Min2(scaled[2] - tile_y * TILE_HEIGHT * 256, FIXED_POINT_MAX)),
      Max2(0, Min2(scaled[3] - tile_x * TILE_WIDTH * 256, FIXED_POINT_MAX)),
      Max2(0, Min2(scaled[4] - tile_y * TILE_HEIGHT * 256, FIXED_POINT_MAX))>>

sub_tile_origin_min(scaled, tile_x, tile_y) ==
    <<Min2(scaled[1] - tile_x * TILE_WIDTH * 256, FIXED_POINT_MAX),
      Min2(scaled[2] - tile_y * TILE_HEIGHT * 256, FIXED_POINT_MAX),
      Min2(scaled[3] - tile_x * TILE_WIDTH * 256, FIXED_POINT_MAX),
      Min2(scaled[4] - tile_y * TILE_HEIGHT * 256, FIXED_POINT_MAX)>>

\* the same for a segment of the sweep, whose coordinates are whole numbers
fixed_point_lanes(segment, tile_x, tile_y) ==
    sub_tile_origin_min(<<segment.from.x * 256, segment.from.y * 256,
                          segment.to.x * 256, segment.to.y * 256>>,
                        tile_x, tile_y)

FillLanes(fill) == fixed_point_lanes(fill.px, fill.tile_x, fill.tile_y)

C22_FillsInFixedPointRange ==
    \A k \in DOMAIN objects :
        \A f \in DOMAIN objects[k].fills :
            \A lane \in 1..4 : FillLanes(objects[k].fills[f])[lane] \in 0..FIXED_POINT_MAX

----------------------------------------------------------------------------
(* Tiler::init_point_queue over contours of lines and cubics.  A contour is  *)
(* what Outline::from_segments pushes for a run of segments: the endpoint of *)
(* a line, the two control points and the endpoint of a cubic; the point     *)
(* before the first segment is there when a MoveTo came before it.           *)

MaxContourSegments == 3

\* the segments a contour is made of: [cubic, ctrl_y, y]
ContourSegments ==
    [cubic : {FALSE}, ctrl_y : {0}, y : 0..2] \cup [cubic : {TRUE}, ctrl_y : {0, 3}, y : 0..2]

\* the points of one segment, pushed after `contour`; x counts the points
contour_with_segment(contour, segment) ==
    IF segment.cubic
    THEN [points |-> contour.points \o <<Point(Len(contour.points), segment.ctrl_y),
                                          Point(Len(contour.points) + 1, segment.ctrl_y),
                                          Point(Len(contour.points) + 2, segment.y)>>,
          flags |-> contour.flags \o <<CONTROL_POINT_0, CONTROL_POINT_1, PointFlags_empty>>]
    ELSE [points |-> Append(contour.points, Point(Len(contour.points), segment.y)),
          flags |-> Append(contour.flags, PointFlags_empty)]

RECURSIVE contour_of_segments(_, _, _)
contour_of_segments(contour, contour_segments, i) ==
    IF i > Len(contour_segments) THEN contour
    ELSE contour_of_segments(contour_with_segment(contour, contour_segments[i]),
                             contour_segments, i + 1)

\* the bounds push_point keeps: the span of all the points
RECURSIVE least_of(_, _, _)
least_of(points, i, coordinate) ==
    IF i = Len(points) THEN points[i][coordinate]
    ELSE Min2(points[i][coordinate], least_of(points, i + 1, coordinate))

RECURSIVE greatest_of(_, _, _)
greatest_of(points, i, coordinate) ==
    IF i = Len(points) THEN points[i][coordinate]
    ELSE Max2(points[i][coordinate], greatest_of(points, i + 1, coordinate))

OutlineOfContour(contour) ==
    [contours |-> <<contour>>,
     bounds |-> [x |-> least_of(contour.points, 1, "x"),
                 y |-> least_of(contour.points, 1, "y"),
                 w |-> greatest_of(contour.points, 1, "x") - least_of(contour.points, 1, "x"),
                 h |-> greatest_of(contour.points, 1, "y") - least_of(contour.points, 1, "y")]]

PointQueueInit ==
    /\ SvIdle
    /\ PathIdle
    /\ TransformIdle
    /\ view_box = [x |-> 0, y |-> 0, w |-> 16, h |-> 16]
    /\ \E n \in 1..MaxContourSegments :
          \E contour_segments \in [1..n -> ContourSegments] :
             outlines = <<OutlineOfContour(contour_of_segments(Contour_new,
                                                               contour_segments, 1))>>
    /\ position = [k \in DOMAIN outlines |-> k - 1]
    /\ runs = [k \in DOMAIN outlines |-> [bounds |-> outlines[k].bounds, trace |-> <<>>]]
    /\ objects = [k \in Slots |-> Tiler_new(k)]
    /\ tilers = [k \in Slots |-> [point_queue |-> <<>>, active_edges |-> <<>>,
                                   strip_origin_y |-> 0, strips |-> <<>>,
                                   log |-> EmptyLog]]
    /\ w_pc = [k \in Slots |-> "start"]
    /\ w_tile = [k \in Slots |-> 0]
    /\ w_old = [k \in Slots |-> 0]
    /\ completed = <<>>
    /\ zbuf = ZBuffer_new
    /\ m_pc = "build_objects"
    /\ built_objects = <<>>
    /\ current_object_index = 0
    /\ solid_tiles = <<>>
    /\ batches = <<>>

\* generate_tiles up to its loop over the strips
PointQueueNext == \E k \in Slots : TilerStart(k)

SpecPointQueue == PointQueueInit /\ [][PointQueueNext]_vars

----------------------------------------------------------------------------
(* C23: init_point_queue enqueues, for every contour, the endpoints that are *)
(* logically above both the endpoint before and the endpoint after them,     *)
(* each once, and no other point; being logically above is a strict total    *)
(* order of the points of a contour.                                         *)

EndpointsOf(contour) ==
    {i \in 0..(Contour_len(contour) - 1) : point_is_endpoint(contour, i)}

LocalMinimaOf(contour) ==
    {i \in EndpointsOf(contour) :
        /\ point_is_logically_above(contour, i, prev_endpoint_index_of(contour, i))
        /\ point_is_logically_above(contour, i, next_endpoint_index_of(contour, i))}

\* the queue holds the local minima of every contour, each once, with its y
QueueHoldsLocalMinima(point_queue, contours) ==
    /\ \A q \in DOMAIN point_queue :
          /\ point_queue[q].point_index.contour + 1 \in DOMAIN contours
          /\ point_queue[q].point_index.point
                \in LocalMinimaOf(contours[point_queue[q].point_index.contour + 1])
          /\ point_queue[q].y
                = position_of(contours[point_queue[q].point_index.contour + 1],
                              point_queue[q].point_index.point).y
          /\ \A r \in DOMAIN point_queue :
                point_queue[q].point_index = point_queue[r].point_index => q = r
    /\ \A c \in DOMAIN contours :
          \A i \in LocalMinimaOf(contours[c]) :
             \E q \in DOMAIN point_queue :
                point_queue[q].point_index = [contour |-> c - 1, point |-> i]

IsStrictTotalOrder(contour) ==
    \A a, b, c \in 0..(Contour_len(contour) - 1) :
        /\ ~point_is_logically_above(contour, a, a)
        /\ a # b => (point_is_logically_above(contour, a, b)
                       # point_is_logically_above(contour, b, a))
        /\ (point_is_logically_above(contour, a, b)
              /\ point_is_logically_above(contour, b, c))
              => point_is_logically_above(contour, a, c)

C23_QueueStartsWithLocalMinima ==
    \A k \in DOMAIN tilers :
        /\ \A c \in DOMAIN outlines[k].contours : IsStrictTotalOrder(outlines[k].contours[c])
        /\ w_pc[k] # "start"
              => QueueHoldsLocalMinima(tilers[k].point_queue, outlines[k].contours)

----------------------------------------------------------------------------
(* C24: over a whole sweep the endpoints popped from the point queue come    *)
(* out in non-decreasing order of (y, PointIndex): each pop takes the entry  *)
(* that is least in that order, and add_new_active_edge enqueues no endpoint *)
(* that sorts before the one it has just popped.                             *)

\* (y, PointIndex) of a before that of b, or the same
KeyLe(a, b) == a.y < b.y \/ (a.y = b.y /\ PointIndex_le(a.point_index, b.point_index))

C24_PoppedInOrder ==
    \A k \in DOMAIN tilers :
        /\ \A i, j \in DOMAIN tilers[k].log.popped :
              i <= j => KeyLe(tilers[k].log.popped[i].endpoint,
                              tilers[k].log.popped[j].endpoint)
        /\ \A i \in DOMAIN tilers[k].log.popped :
              \A r \in DOMAIN tilers[k].log.popped[i].rest :
                 KeyLe(tilers[k].log.popped[i].endpoint, tilers[k].log.popped[i].rest[r])
        /\ \A e \in DOMAIN tilers[k].log.enqueued :
              KeyLe(tilers[k].log.popped[tilers[k].log.enqueued[e].popped].endpoint,
                    tilers[k].log.enqueued[e].endpoint)

\* a sweep over two contours has popped endpoints of both, one of them an
\* endpoint enqueued with the y of the endpoint popped before it, while
\* others were waiting in the queue
C24_Witness ==
    \E k \in DOMAIN tilers :
        /\ \E i, j \in DOMAIN tilers[k].log.popped :
              tilers[k].log.popped[i].endpoint.point_index.contour
                 # tilers[k].log.popped[j].endpoint.point_index.contour
        /\ \E e \in DOMAIN tilers[k].log.enqueued :
              /\ tilers[k].log.enqueued[e].endpoint.y
                    = tilers[k].log.popped[tilers[k].log.enqueued[e].popped].endpoint.y
              /\ \E i \in DOMAIN tilers[k].log.popped :
                    /\ tilers[k].log.popped[i].endpoint = tilers[k].log.enqueued[e].endpoint
                    /\ Len(tilers[k].log.popped[i].rest) >= 2

----------------------------------------------------------------------------
(* C25: during a sweep no segment of a contour is made an active edge more   *)
(* than once, and every segment (the closing one of each contour too) whose  *)
(* logically upper endpoint has its y above the bottom of the object's tile  *)
(* rect is made an active edge once, in the strip in which that endpoint is  *)
(* popped.                                                                   *)

\* the logically upper endpoint of the segment after endpoint `from`
UpperEndpointOf(contour, from) ==
    IF point_is_logically_above(contour, from, next_endpoint_index_of(contour, from))
    THEN from
    ELSE next_endpoint_index_of(contour, from)

\* the entries of the log that made the segment after `from` an active edge
ActivationsOf(log, c, from) ==
    {a \in DOMAIN log.activated :
        log.activated[a].contour = c /\ log.activated[a].from = from}

\* the sweep of worker k is over
SweepIsOver(k) == w_pc[k] \notin {"start", "strips"}

C25_EachSegmentActivatedOnce ==
    \A k \in DOMAIN tilers :
        \A c \in DOMAIN outlines[k].contours :
            \A from \in EndpointsOf(outlines[k].contours[c]) :
                /\ Cardinality(ActivationsOf(tilers[k].log, c - 1, from)) <= 1
                /\ \A a \in ActivationsOf(tilers[k].log, c - 1, from) :
                      /\ tilers[k].log.activated[a].upper
                            = UpperEndpointOf(outlines[k].contours[c], from)
                      /\ \E p \in DOMAIN tilers[k].log.popped :
                            /\ tilers[k].log.popped[p].endpoint.point_index
                                  = [contour |-> c - 1,
                                     point |-> tilers[k].log.activated[a].upper]
                            /\ tilers[k].log.popped[p].tile_y
                                  = tilers[k].log.activated[a].tile_y
                /\ (/\ SweepIsOver(k)
                    /\ position_of(outlines[k].contours[c],
                                   UpperEndpointOf(outlines[k].contours[c], from)).y
                          < Rect_max_y(objects[k].tile_rect) * TILE_HEIGHT)
                      => ActivationsOf(tilers[k].log, c - 1, from) # {}

----------------------------------------------------------------------------
(* C26: in every strip process_old_active_edges goes through the active      *)
(* edges in non-decreasing order of crossing.x, whatever the order in which  *)
(* they were pushed during the strip before.                                 *)

----------------------------------------------------------------------------
(* C27: every edge in the active-edge set at the start of a strip has a      *)
(* segment left that reaches below the top of the strip, and its crossing is *)
(* the upper point of that segment, on the top of the strip: an edge is kept *)
(* only when it was split at the bottom of the strip before.                 *)

\* an edge as it is kept for the strip whose top is at y
KeptFor(active_edge, y) ==
    /\ ~is_none(active_edge.segment)
    /\ max_y(active_edge.segment.baseline) > y
    /\ min_y(active_edge.segment.baseline) = y
    /\ active_edge.crossing = upper_point(active_edge.segment.baseline)
    /\ active_edge.crossing.y = y

----------------------------------------------------------------------------
(* C28: for every active edge that process_old_active_edges goes through,    *)
(* once it has moved over the tiles in between, current_tile_x is the tile   *)
(* column of the edge's crossing and is left of tile_rect.max_x(), and every *)
(* call of get_tile_mut has a column of the object's tile rect.              *)

ColumnInTileRect(tile_x, tile_rect) ==
    tile_rect.x <= tile_x /\ tile_x < Rect_max_x(tile_rect)

C28_CurrentTileIsCrossingTile ==
    \A k \in DOMAIN tilers :
        /\ \A v \in DOMAIN tilers[k].log.visits :
              /\ tilers[k].log.visits[v].current_tile_x
                    = I32_div(tilers[k].log.visits[v].active_edge.crossing.x, TILE_WIDTH)
              /\ tilers[k].log.visits[v].current_tile_x < Rect_max_x(objects[k].tile_rect)
        /\ \A b \in DOMAIN tilers[k].log.backdrops :
              ColumnInTileRect(tilers[k].log.backdrops[b].tile_x, objects[k].tile_rect)

----------------------------------------------------------------------------
(* C29: every fill that a Tiler appends to its BuiltObject has its tile      *)
(* inside the object's tile rect, so that tile_coords_to_index gives the     *)
(* index of that tile and of no other.                                       *)

C29_FillsInsideTileRect ==
    \A k \in DOMAIN tilers :
        \A f \in DOMAIN objects[k].fills :
            /\ ColumnInTileRect(objects[k].fills[f].tile_x, objects[k].tile_rect)
            /\ objects[k].tile_rect.y <= objects[k].fills[f].tile_y
            /\ objects[k].fills[f].tile_y < Rect_max_y(objects[k].tile_rect)
            /\ tile_coords_to_index(objects[k], objects[k].fills[f].tile_x,
                                    objects[k].fills[f].tile_y) < Len(objects[k].tiles)

----------------------------------------------------------------------------
(* C30: the backdrop that process_old_active_edges assigns to a tile is the  *)
(* sum of the windings of the active edges of the strip it has gone through, *)
(* which are those with their crossing on or left of the tile's left side;   *)
(* the backdrop of a tile is assigned at most once in a sweep and is 0 when  *)
(* it never was.                                                             *)

RECURSIVE WindingOfFirst(_, _)
WindingOfFirst(edges, n) ==
    IF n = 0 THEN 0
    ELSE WindingOfFirst(edges, n - 1) + y_winding(edges[n].segment.baseline)

RECURSIVE WindingLeftOf(_, _, _)
WindingLeftOf(edges, n, x) ==
    IF n = 0 THEN 0
    ELSE WindingLeftOf(edges, n - 1, x)
           + (IF edges[n].crossing.x <= x THEN y_winding(edges[n].segment.baseline) ELSE 0)

\* the backdrop entries of the log that wrote the tile at `index`
BackdropsOf(k, index) ==
    {b \in DOMAIN tilers[k].log.backdrops :
        tile_coords_to_index(objects[k], tilers[k].log.backdrops[b].tile_x,
                             tilers[k].log.backdrops[b].tile_y) = index}

C30_BackdropIsWindingToTheLeft ==
    \A k \in DOMAIN tilers :
        /\ \A b \in DOMAIN tilers[k].log.backdrops :
              \A n \in DOMAIN tilers[k].strips :
                 tilers[k].strips[n].tile_y = tilers[k].log.backdrops[b].tile_y =>
                    /\ tilers[k].log.backdrops[b].winding
                          = WindingOfFirst(tilers[k].strips[n].old_active_edges,
                                           tilers[k].log.backdrops[b].processed)
                    /\ tilers[k].log.backdrops[b].winding
                          = WindingLeftOf(tilers[k].strips[n].old_active_edges,
                                          Len(tilers[k].strips[n].old_active_edges),
                                          tilers[k].log.backdrops[b].tile_x * TILE_WIDTH)
        /\ \A t \in DOMAIN objects[k].tiles :
              /\ Cardinality(BackdropsOf(k, t - 1)) <= 1
              /\ BackdropsOf(k, t - 1) = {} => objects[k].tiles[t].backdrop = 0
              /\ \A b \in BackdropsOf(k, t - 1) :
                    objects[k].tiles[t].backdrop = tilers[k].log.backdrops[b].winding

----------------------------------------------------------------------------
(* C31: every call of add_active_fill(left, right, winding, tile_x, tile_y)  *)
(* returns, having appended exactly |winding| fills, all of them the segment *)
(* at y = tile_y * TILE_HEIGHT for tile (tile_x, tile_y), from left to right *)
(* if winding < 0 and from right to left if winding > 0; with winding 0 it   *)
(* appends nothing and leaves the solid bits as they were.                    *)

ActiveFillSegment(call) ==
    IF call.winding < 0
    THEN LineSegmentF32_new(Point(call.left, call.tile_y * TILE_HEIGHT),
                            Point(call.right, call.tile_y * TILE_HEIGHT))
    ELSE LineSegmentF32_new(Point(call.right, call.tile_y * TILE_HEIGHT),
                            Point(call.left, call.tile_y * TILE_HEIGHT))

ActiveFillDone(k, entry) ==
    /\ entry.fills_after = entry.fills_before + Abs(entry.call.winding)
    /\ \A i \in (entry.fills_before + 1)..entry.fills_after :
           objects[k].fills[i] = [px |-> ActiveFillSegment(entry.call),
                                  tile_x |-> entry.call.tile_x,
                                  tile_y |-> entry.call.tile_y]
    /\ entry.call.winding = 0 => entry.solid_after = entry.solid_before

ActiveFillsReturned ==
    \A k \in DOMAIN tilers :
        \A i \in DOMAIN tilers[k].log.active_fills :
            tilers[k].log.active_fills[i].returned

ActiveFillsDone ==
    \A k \in DOMAIN tilers :
        \A i \in DOMAIN tilers[k].log.active_fills :
            ActiveFillDone(k, tilers[k].log.active_fills[i])

C31_ActiveFillAppendsWindingFills == ActiveFillsReturned /\ ActiveFillsDone

----------------------------------------------------------------------------
(* C32: for a line within the strip, generate_fill_primitives_for_line       *)
(* appends one fill per tile column the line crosses, at least one: each     *)
(* fill is in that column of the strip and its x range within the column,    *)
(* one fill ends where the next begins, on the side the two columns share,   *)
(* and together they run from the line's from point to its to point.         *)

\* the fills a call appended, in the line's direction: the code goes through
\* the columns from the left, which is backwards for a line drawn leftwards
FillsAlong(k, entry) ==
    LET appended == SubSeq(objects[k].fills, entry.fills_before + 1, entry.fills_after)
    IN IF entry.call.segment.from.x > entry.call.segment.to.x
       THEN Reverse(appended) ELSE appended

FillInItsColumn(fill) ==
    /\ fill.tile_x * TILE_WIDTH <= Min2(fill.px.from.x, fill.px.to.x)
    /\ Max2(fill.px.from.x, fill.px.to.x) <= (fill.tile_x + 1) * TILE_WIDTH

FillsMeet(a, b) ==
    /\ a.px.to = b.px.from
    /\ a.tile_x # b.tile_x
    /\ a.px.to.x = Max2(a.tile_x, b.tile_x) * TILE_WIDTH

LineIsFilled(k, entry) ==
    LET along == FillsAlong(k, entry)
        segment == entry.call.segment
    IN /\ entry.returned
       /\ Len(along) >= 1
       /\ Len(along) = Max2(1, alignup_i32(Max2(segment.from.x, segment.to.x), TILE_WIDTH)
                                - I32_div(Min2(segment.from.x, segment.to.x), TILE_WIDTH))
       /\ \A i \in DOMAIN along :
              /\ along[i].tile_y = entry.call.tile_y
              /\ FillInItsColumn(along[i])
       /\ \A i \in 1..(Len(along) - 1) : FillsMeet(along[i], along[i + 1])
       /\ along[1].px.from = segment.from
       /\ along[Len(along)].px.to = segment.to

LineInStrip(call) ==
    /\ call.tile_y * TILE_HEIGHT <= min_y(call.segment)
    /\ max_y(call.segment) <= (call.tile_y + 1) * TILE_HEIGHT

C32_OneFillPerColumn ==
    \A k \in DOMAIN tilers :
        \A i \in DOMAIN tilers[k].log.lines :
            LineInStrip(tilers[k].log.lines[i].call)
                => LineIsFilled(k, tilers[k].log.lines[i])

----------------------------------------------------------------------------
(* add_fill's packing of the four lanes into px and subpx.  An i32 lane is   *)
(* taken byte by byte, in two's complement; subpx, a u32, is kept as its     *)
(* four bytes, the least significant first.                                  *)

\* byte k (0 the least significant) of an i32
byte_of(value, k) == (value \div <<1, 256, 65536, 16777216>>[k + 1]) % 256

\* the bytes of shuffle_mask: lanes 0x0c08_0400, 0x0d05_0901, 0 and 0
SHUFFLE_MASK == <<0, 4, 8, 12, 1, 9, 5, 13, 0, 0, 0, 0, 0, 0, 0, 0>>

\* Sse41::shuffle_epi8: byte i of the result is the byte of the source that
\* byte i of the mask names
shuffle_epi8(lanes, mask) ==
    [i \in 1..16 |-> byte_of(lanes[(mask[i] \div 4) + 1], mask[i] % 4)]

RECURSIVE BitOr(_, _)
BitOr(a, b) ==
    IF a = 0 THEN b
    ELSE IF b = 0 THEN a
    ELSE (IF a % 2 = 1 \/ b % 2 = 1 THEN 1 ELSE 0) + 2 * BitOr(a \div 2, b \div 2)

\* `(segment[1] | (segment[1] >> 12)) as u16` from the bytes of the shuffled
\* register: the low 16 bits of lane 1, and its bits 12 to 27
LineSegmentU4(bytes) ==
    BitOr(bytes[5] + bytes[6] * 256,
          (bytes[6] \div 16) + bytes[7] * 16 + (bytes[8] % 16) * 4096)

\* `segment[0] as u32`
LineSegmentU8(bytes) == <<bytes[1], bytes[2], bytes[3], bytes[4]>>

\* the (px, subpx) pair add_fill stores
packed(lanes) ==
    [px |-> LineSegmentU4(shuffle_epi8(lanes, SHUFFLE_MASK)),
     subpx |-> LineSegmentU8(shuffle_epi8(lanes, SHUFFLE_MASK))]

\* The lanes add_fill is given: cvtps_epi32(mul_ps(segment, 256)), so a
\* coordinate in 256ths of a pixel, and a tile of the object's 2 x 2.
FillCoordinates == {-300, 291, 2748, 4095, 4096, 6748, 8448}

FillInit ==
    /\ SvIdle
    /\ PathIdle
    /\ TransformIdle
    /\ TilerIdle
    /\ position = <<>> /\ w_pc = <<>> /\ w_tile = <<>> /\ w_old = <<>>
    /\ completed = <<>> /\ zbuf = <<>> /\ built_objects = <<>>
    /\ current_object_index = 0 /\ solid_tiles = <<>> /\ batches = <<>>
    /\ \E scaled \in FillCoordinates \X FillCoordinates \X FillCoordinates
                        \X FillCoordinates :
          \E tile_x, tile_y \in 0..1 :
             runs = <<[scaled |-> scaled, tile_x |-> tile_x, tile_y |-> tile_y]>>
    /\ objects = <<BuiltObject_new([x |-> 0, y |-> 0, w |-> 2 * TILE_WIDTH,
                                    h |-> 2 * TILE_HEIGHT], 0)>>
    /\ m_pc = "add_fill"

AddFill ==
    /\ m_pc = "add_fill"
    /\ objects' = [objects EXCEPT
                     ![1] = add_fill(@, packed(sub_tile_origin_min(
                                                  runs[1].scaled, runs[1].tile_x,
                                                  runs[1].tile_y)),
                                     runs[1].tile_x, runs[1].tile_y)]
    /\ m_pc' = "filled"
    /\ UNCHANGED <<position, runs, w_pc, w_tile, w_old, completed, zbuf,
                   built_objects, current_object_index, solid_tiles, batches,
                   sv_vars, path_vars, transform_vars, tiler_vars>>

FillNext == AddFill

SpecFill == FillInit /\ [][FillNext]_vars

----------------------------------------------------------------------------
(* C33: add_fill takes c0..c3 = (from.x, from.y, to.x, to.y) * 256 less the  *)
(* tile's origin * 256 and bounds them from above only, by 0x0FFF: a         *)
(* negative one stays as it is, and its low byte goes into subpx.  With all  *)
(* four in 0 .. 0x0FFF, nibble k of px is c_k >> 8 and byte k of subpx is    *)
(* c_k & 0xFF.                                                               *)

\* c_k of the fill asked for, k = 0..3
TileLocal(run, k) ==
    LET raw == run.scaled[k + 1]
                 - (IF k % 2 = 0 THEN run.tile_x * TILE_WIDTH
                    ELSE run.tile_y * TILE_HEIGHT) * 256
    IN IF raw > 4095 THEN 4095 ELSE raw

NibbleOf(px, k) == (px \div <<1, 16, 256, 4096>>[k + 1]) % 16

C33_FillIsPacked ==
    m_pc = "filled" =>
        LET fill == objects[1].fills[1]
        IN /\ \A k \in 0..3 : fill.px.subpx[k + 1] = TileLocal(runs[1], k) % 256
           /\ (\A k \in 0..3 : TileLocal(runs[1], k) \in 0..4095)
                 => /\ fill.px.px \in 0..65535
                    /\ \A k \in 0..3 :
                          /\ NibbleOf(fill.px.px, k) = TileLocal(runs[1], k) \div 256
                          /\ fill.px.subpx[k + 1] = TileLocal(runs[1], k) % 256

C33_Witness ==
    /\ m_pc = "filled"
    /\ C33_FillIsPacked
    /\ runs[1].tile_x = 1
    /\ TileLocal(runs[1], 0) = 2652
    /\ TileLocal(runs[1], 1) = 291
    /\ TileLocal(runs[1], 2) = 4095
    /\ TileLocal(runs[1], 3) = 2748
    /\ objects[1].fills[1].px.px = 10 + 16 * 1 + 256 * 15 + 4096 * 10
    /\ objects[1].fills[1].px.subpx = <<92, 35, 255, 188>>

----------------------------------------------------------------------------
(* C34: of the two or three pieces MonotonicConversionIter makes of a cubic, *)
(* the first has FIRST_IN_SUBPATH if the cubic had it and no other flag, the *)
(* last has CLOSES_SUBPATH if the cubic had it and no other flag, and the    *)
(* middle one of three has no flag.                                          *)

SplitFlagsOf(segment, pieces) ==
    /\ pieces[1].flags = segment.flags \cap {FIRST_IN_SUBPATH}
    /\ pieces[Len(pieces)].flags = segment.flags \cap {CLOSES_SUBPATH}
    /\ \A n \in 2..(Len(pieces) - 1) : pieces[n].flags = {}

----------------------------------------------------------------------------
(* C35: build_batch returns None only with every object consumed: when the   *)
(* loop of main has stopped at the first None, current_object_index is       *)
(* objects.len().                                                            *)

C35_NoneOnlyWhenAllConsumed ==
    m_pc = "done" => current_object_index = objects_len

----------------------------------------------------------------------------
(* The scene pipeline with the workers scheduled fairly: a worker of the     *)
(* thread pool that can take its next step of ZBuffer::update, its load or   *)
(* its compare-and-swap, takes it in the end.                                *)

SpecFair ==
    /\ Spec
    /\ \A k \in 1..NumObjects : WF_vars(UpdateLoad(k)) /\ WF_vars(UpdateCas(k))

----------------------------------------------------------------------------
(* C36: every call of ZBuffer::update returns.  A caller whose               *)
(* compare-and-swap did not store goes round again only if the cell it saw   *)
(* is below its own depth, and the call ends with its depth stored by its    *)
(* compare-and-swap or with a cell seen that is not below its depth.         *)

\* worker k is in its call of update for tile t of its object
InUpdate(k, t) == w_pc[k] \in {"load", "cas"} /\ w_tile[k] = t

UpdateDepth(k) == new_depth(Tiler_object_index(k))

\* the cell the step of worker k reads
UpdateSees(k) == zbuf[update_cell(objects[k], w_tile[k])]

\* the step stores the depth of worker k by its compare-and-swap
UpdateStores(k) ==
    /\ w_pc[k] = "cas"
    /\ UpdateSees(k) = w_old[k]
    /\ zbuf' = [zbuf EXCEPT ![update_cell(objects[k], w_tile[k])] = UpdateDepth(k)]

UpdateStep(k) ==
    /\ w_pc[k] \in {"load", "cas"}
    /\ <<w_pc[k], w_tile[k], w_old[k]>>' # <<w_pc[k], w_tile[k], w_old[k]>>

UpdateEndsWell ==
    \A k \in Slots :
        UpdateStep(k) =>
            IF w_pc'[k] \in {"load", "cas"} /\ w_tile'[k] = w_tile[k]
            THEN \* the loop goes on: to the first or to another compare-and-swap
                 /\ w_pc'[k] = "cas"
                 /\ UpdateSees(k) < UpdateDepth(k)
                 /\ w_old'[k] = UpdateSees(k)
                 /\ zbuf' = zbuf
            ELSE UpdateStores(k) \/ (UpdateSees(k) >= UpdateDepth(k) /\ zbuf' = zbuf)

\* the number of tiles of the view box of the scene pipeline, which no
\* object has more than
ViewBoxTiles ==
    round_rect_out_to_tile_bounds(ViewBox).w * round_rect_out_to_tile_bounds(ViewBox).h

C36_UpdateReturns ==
    /\ \A k \in 1..NumObjects :
          \A t \in 0..(ViewBoxTiles - 1) :
             InUpdate(k, t) ~> ~InUpdate(k, t)
    /\ [][UpdateEndsWell]_vars

\* a caller about to lose its compare-and-swap to a smaller depth than its
\* own: it has to go round again
C36_Witness ==
    \E k \in Slots :
        /\ w_pc[k] = "cas"
        /\ UpdateSees(k) # w_old[k]
        /\ UpdateSees(k) < UpdateDepth(k)

----------------------------------------------------------------------------
(* C37: generate_tiles comes to its end for every outline: no sweep stops    *)
(* before its last strip, the endpoints popped are no more than those        *)
(* enqueued, no endpoint is enqueued more than twice in a sweep, by          *)
(* init_point_queue and add_new_active_edge together, and the sweep is over  *)
(* after the last strip whatever is left in active_edges and point_queue.    *)

\* how often the sweep of worker k has enqueued the endpoint
TimesEnqueued(k, point_index) ==
    Cardinality({i \in DOMAIN init_point_queue(outlines[k].contours) :
                    init_point_queue(outlines[k].contours)[i].point_index = point_index})
    + Cardinality({i \in DOMAIN tilers[k].log.enqueued :
                      tilers[k].log.enqueued[i].endpoint.point_index = point_index})

EnqueuedAtMostTwice(k) ==
    \A c \in DOMAIN outlines[k].contours :
        \A p \in EndpointsOf(outlines[k].contours[c]) :
            TimesEnqueued(k, [contour |-> c - 1, point |-> p]) <= 2

PoppedWereEnqueued(k) ==
    Len(tilers[k].log.popped) + Len(tilers[k].point_queue)
        = Len(init_point_queue(outlines[k].contours)) + Len(tilers[k].log.enqueued)

C37_SweepComesToItsEnd ==
    \A k \in DOMAIN tilers :
        w_pc[k] # "start" =>
            /\ w_pc[k] # "panicked"
            /\ EnqueuedAtMostTwice(k)
            /\ PoppedWereEnqueued(k)
            /\ SweepIsOver(k) =>
                   tilers[k].strip_origin_y
                       = Max2(objects[k].tile_rect.y, Rect_max_y(objects[k].tile_rect))

----------------------------------------------------------------------------
(* C38: in every call of ZBuffer::update, the depth it stores for the object *)
(* at position i of the scene is i + 1, which is what ZBuffer::test and      *)
(* build_solid_tiles take a cell to hold: it is not 0, and two objects that  *)
(* update have different depths.                                             *)

C38_DepthIsPositionPlusOne ==
    \A k \in Slots :
        w_pc[k] \in {"load", "cas"} =>
            /\ UpdateDepth(k) = position[k] + 1
            /\ UpdateDepth(k) # 0
            /\ \A j \in Slots :
                   (j # k /\ w_pc[j] \in {"load", "cas"}) => UpdateDepth(j) # UpdateDepth(k)

----------------------------------------------------------------------------
(* round_rect_out_to_tile_bounds over rects on both sides of the origin, as  *)
(* BuiltObject::new and ZBuffer::new call it for the bounds and the view box *)

RectOrigins == {-20, -16, -4, 0, 4, 16}

RectSizes == {4, 16, 28}

RectInit ==
    /\ SvIdle
    /\ PathIdle
    /\ TransformIdle
    /\ \E x, y \in RectOrigins : \E w, h \in RectSizes :
          view_box = [x |-> x, y |-> y, w |-> w, h |-> h]
    /\ outlines = <<>>
    /\ tilers = <<>>
    /\ position = <<>> /\ runs = <<>> /\ objects = <<>>
    /\ w_pc = <<>> /\ w_tile = <<>> /\ w_old = <<>> /\ completed = <<>>
    /\ zbuf = <<>> /\ m_pc = "new" /\ built_objects = <<>>
    /\ current_object_index = 0 /\ solid_tiles = <<>> /\ batches = <<>>

\* BuiltObject::new for bounds that are the view box, and ZBuffer::new
RectNew ==
    /\ m_pc = "new"
    /\ objects' = <<BuiltObject_new(view_box, 0)>>
    /\ zbuf' = ZBuffer_new
    /\ m_pc' = "built"
    /\ UNCHANGED <<position, runs, w_pc, w_tile, w_old, completed,
                   built_objects, current_object_index, solid_tiles, batches,
                   sv_vars, path_vars, transform_vars, tiler_vars>>

RectNext == RectNew

SpecRect == RectInit /\ [][RectNext]_vars

----------------------------------------------------------------------------
(* C39: the tile rect round_rect_out_to_tile_bounds returns covers the rect  *)
(* it is given on both axes, for rects with negative coordinates too:        *)
(* origin * TILE_SIZE <= rect.min and (origin + size) * TILE_SIZE >=         *)
(* rect.max.                                                                 *)

TileRectCovers(tile_rect, rect) ==
    /\ tile_rect.x * TILE_WIDTH <= rect.x
    /\ tile_rect.y * TILE_HEIGHT <= rect.y
    /\ Rect_max_x(tile_rect) * TILE_WIDTH >= Rect_max_x(rect)
    /\ Rect_max_y(tile_rect) * TILE_HEIGHT >= Rect_max_y(rect)

C39_TileRectCoversRect ==
    m_pc = "built" =>
        /\ TileRectCovers(objects[1].tile_rect, view_box)
        /\ Len(objects[1].tiles) = objects[1].tile_rect.w * objects[1].tile_rect.h
        /\ DOMAIN zbuf = 0..(objects[1].tile_rect.w * objects[1].tile_rect.h - 1)

----------------------------------------------------------------------------
(* C40: Outline::from_segments and Contour::segment_after are inverse.  For  *)
(* every segment that from_segments has consumed and that does not close a   *)
(* subpath, the contour holds baseline.from, as an endpoint, right before    *)
(* the control points and baseline.to of the segment, and segment_after at   *)
(* that point returns the kind, the endpoints and the control points of the  *)
(* segment; segment_after at the last point of a contour returns the line    *)
(* from that point to the first point of the contour.                        *)

\* from_segments after the first n segments of the stream
RECURSIVE BuildingAfter(_)
BuildingAfter(n) ==
    IF n = 0
    THEN [outline |-> Outline_new, current_contour |-> Contour_new,
          bounding_points |-> None]
    ELSE from_segments_body(BuildingAfter(n - 1), emitted[n])

\* the contours built so far, the one under construction included
ContoursBuilt == flush_contour(Building).outline.contours

\* the points that from_segments pushes after baseline.from
PointsAfterFrom(segment) ==
    IF is_line(segment) THEN 1 ELSE IF is_quadratic(segment) THEN 2 ELSE 3

IsStored(segment) == CLOSES_SUBPATH \notin segment.flags /\ ~is_none(segment)

SegmentIsRead(segment, contour, point_index) ==
    /\ point_index >= 0
    /\ point_is_endpoint(contour, point_index)
    /\ position_of(contour, point_index) = segment.baseline.from
    /\ segment_after(contour, point_index).kind = segment.kind
    /\ segment_after(contour, point_index).baseline = segment.baseline
    /\ ~is_line(segment) =>
          segment_after(contour, point_index).ctrl.from = segment.ctrl.from
    /\ (~is_line(segment) /\ ~is_quadratic(segment)) =>
          segment_after(contour, point_index).ctrl.to = segment.ctrl.to

SegmentIsReadBack(n) ==
    SegmentIsRead(emitted[n],
                  ContoursBuilt[Len(BuildingAfter(n).outline.contours) + 1],
                  Contour_len(BuildingAfter(n).current_contour)
                     - PointsAfterFrom(emitted[n]) - 1)

ContourIsClosedByLine(contour) ==
    segment_after(contour, Contour_len(contour) - 1)
       = Segment_line(LineSegmentF32_new(
             position_of(contour, Contour_len(contour) - 1),
             position_of(contour, 0)))

C40_SegmentAfterInvertsFromSegments ==
    /\ \A n \in DOMAIN emitted : IsStored(emitted[n]) => SegmentIsReadBack(n)
    /\ \A c \in DOMAIN ContoursBuilt : ContourIsClosedByLine(ContoursBuilt[c])

====
